---- MODULE Spec2Model ----
(***************************************************************************)
(* Offline-first session runner of stoxtox/itagts                          *)
(* (src/src/components/PlanRunner.jsx): the local durable store, the       *)
(* session lifecycle controller, the outbox synchronizer (flush) and the   *)
(* connectivity monitor, as one state machine.                             *)
(*                                                                         *)
(* An action is one run-to-completion piece of JavaScript: a handler from  *)
(* its call to its first await, or the continuation that runs when an      *)
(* awaited remote call settles, up to the next await.                      *)
(***************************************************************************)
EXTENDS Integers, Sequences, FiniteSets, TLC

\* ------------------------------------------------------------------ bounds
\* sessions started (local placeholder ids and direct remote creations)
MaxSessions == 2
\* sessions started where one session is followed through the synchronizer
MaxSolo == 1
\* length of a session's stamp list
MaxStamps == 3
\* length of the stamp list where the synchronizer is followed
MaxQueued == 1
\* entries in the outbox, touch entries included
MaxOutbox == 6
\* operation ids handed out by genOpId that are still referenced somewhere
MaxOps == 4
\* synchronizer runs that may be suspended on a remote call at the same time
MaxRuns == 2
\* remote documents
MaxDocs == 3
\* remote calls counted per operation (the count saturates here)
MaxApplied == 2
\* ticks of the wall clock
MaxTime == 1
\* direct remote writes of the controller awaiting their answer
MaxInflight == 1
\* length of an operation list given to groupAndCoalesce as such
MaxList == 3
MaxLap == 3
MaxMergeStamps == 2
MaxMergeTime == 3

\* ------------------------------------------------------------ identifiers
NoId == <<"none", 0>>
LocalId(n) == <<"local", n>>
RemoteId(n) == <<"doc", n>>
LocalIds == {LocalId(n) : n \in 1..MaxSessions}
RemoteIds == {RemoteId(n) : n \in 1..MaxDocs}
IsLocalId(sid) == sid[1] = "local"

\* ----------------------------------------------------------------- instants
\* An instant in the four forms the code moves it through: a Date in memory,
\* an ISO string in the stamp cache, plain milliseconds in an outbox payload
\* and a Firestore Timestamp in a remote document.
Instant(form, t) == [form |-> form, t |-> t]
toDateSafe(v) == Instant("date", v.t)
toMillis(v) == Instant("millis", toDateSafe(v).t)
toTimestamp(v) == Instant("ts", toDateSafe(v).t)
toISOString(v) == Instant("iso", v.t)

StampToISO(st) == [st EXCEPT !.time = toISOString(st.time)]
StampToDate(st) == [st EXCEPT !.time = toDateSafe(st.time)]
StampToMillis(st) == [st EXCEPT !.time = toMillis(st.time)]
StampToTimestamp(st) == [st EXCEPT !.time = toTimestamp(st.time)]
\* list.map(t => ({ ...t, time: f(t.time) }))
StampsToISO(list) == [i \in 1..Len(list) |-> StampToISO(list[i])]
StampsToDate(list) == [i \in 1..Len(list) |-> StampToDate(list[i])]
StampsToMillis(list) == [i \in 1..Len(list) |-> StampToMillis(list[i])]
StampsToTimestamp(list) == [i \in 1..Len(list) |-> StampToTimestamp(list[i])]

\* ------------------------------------------------------------- stamp names
\* A stamp name is a sequence of string tokens: "L", a number, white space,
\* "Start"/"Stop" for a lap marker, "MANUAL:" first for a manual note, one
\* token for a capture point.
NumTok == <<"1", "2", "3", "4", "5", "6", "7", "8", "9">>
IsNumTok(tok) == \E i \in 1..Len(NumTok) : NumTok[i] = tok
parseInt(tok) == CHOOSE i \in 1..Len(NumTok) : NumTok[i] = tok
WhiteSpace == {" ", "  "}
StartName(n) == <<"L", NumTok[n], " ", "Start">>
StopName(n) == <<"L", NumTok[n], " ", "Stop">>
ManualName(note) == <<"MANUAL:", " ", note>>
Zupts == {<<"Z1">>}
Notes == {"n"}

\* --------------------------------------------------- derive lap & captured
rexStart(name) ==
    /\ Len(name) = 4
    /\ name[1] = "L"
    /\ IsNumTok(name[2])
    /\ name[3] \in WhiteSpace
    /\ name[4] = "Start"
rexStop(name) ==
    /\ Len(name) = 4
    /\ name[1] = "L"
    /\ IsNumTok(name[2])
    /\ name[3] \in WhiteSpace
    /\ name[4] = "Stop"
IsManual(name) == Len(name) >= 1 /\ name[1] = "MANUAL:"
MaxOf(S) == CHOOSE m \in S : \A x \in S : x <= m
\* Array.prototype.lastIndexOf, 1-based, 0 when absent
lastIndexOf(names, name) ==
    LET hits == {i \in 1..Len(names) : names[i] = name}
    IN  IF hits = {} THEN 0 ELSE MaxOf(hits)
\* variant: the lap started last wins, not the highest lap number
deriveLoopStateRecent(stamps) ==
    LET names == [i \in 1..Len(stamps) |-> stamps[i].zuptName]
        startIdxs == {j \in 1..Len(names) : rexStart(names[j])}
        stops == {parseInt(names[i][2]) : i \in {j \in 1..Len(names) : rexStop(names[j])}}
    IN  IF startIdxs = {}
        THEN [loopIdx |-> 1, loopOn |-> FALSE, captured |-> {}]
        ELSE LET recent == parseInt(names[MaxOf(startIdxs)][2])
             IN  [loopIdx |-> IF recent \notin stops THEN recent ELSE recent + 1,
                  loopOn |-> recent \notin stops,
                  captured |-> {}]
\* variant: a lap is always reported open and nothing captured
deriveLoopStateOpen(stamps) == [loopIdx |-> 1, loopOn |-> TRUE, captured |-> {}]
deriveLoopState(stamps) ==
    LET names == [i \in 1..Len(stamps) |-> stamps[i].zuptName]
        starts == {parseInt(names[i][2]) : i \in {j \in 1..Len(names) : rexStart(names[j])}}
        stops == {parseInt(names[i][2]) : i \in {j \in 1..Len(names) : rexStop(names[j])}}
    IN  IF starts = {}
        THEN [loopIdx |-> 1, loopOn |-> FALSE, captured |-> {}]
        ELSE LET maxStart == MaxOf(starts)
                 loopOn == maxStart \notin stops
                 loopIdx == IF loopOn THEN maxStart ELSE maxStart + 1
                 lastStartIdx ==
                     lastIndexOf(names, StartName(IF loopOn THEN loopIdx ELSE loopIdx - 1))
             IN  [loopIdx |-> loopIdx,
                  loopOn |-> loopOn,
                  captured |->
                      {names[i] : i \in {j \in (lastStartIdx + 1)..Len(names) :
                          /\ ~rexStart(names[j])
                          /\ ~rexStop(names[j])
                          /\ ~IsManual(names[j])}}]

\* ------------------------------------------------------- outbox operations
\* A queued operation is [opId, type, sessionId, payload]; a touch entry has
\* the type alone, so its sessionId and opId read as undefined.
NoOp == [type |-> "null"]
TouchOp == [type |-> "touch"]
SessionIdOf(o) == IF "sessionId" \in DOMAIN o THEN o.sessionId ELSE NoId
OpIdOf(o) == IF "opId" \in DOMAIN o THEN o.opId ELSE 0
MkOp(opId, type, sid, payload) ==
    [opId |-> opId, type |-> type, sessionId |-> sid, payload |-> payload]

\* Merge ops per session: keep first create, last update, last finish.
RECURSIVE SessionsInOrder(_)
SessionsInOrder(ops) ==
    IF ops = <<>> THEN <<>>
    ELSE LET front == SessionsInOrder(SubSeq(ops, 1, Len(ops) - 1))
             op == ops[Len(ops)]
         IN  IF op.type = "touch" \/ \E i \in 1..Len(front) : front[i] = op.sessionId
             THEN front
             ELSE Append(front, op.sessionId)
OpsOfType(ops, sid, type) ==
    SelectSeq(ops, LAMBDA o : o.type = type /\ SessionIdOf(o) = sid)
FirstOrNull(s) == IF Len(s) > 0 THEN s[1] ELSE NoOp
\* variant: the first of the list where the last is meant
TakeFirst(s) == IF Len(s) > 0 THEN s[1] ELSE NoOp
LastOrNull(s) == IF Len(s) > 0 THEN s[Len(s)] ELSE NoOp
groupAndCoalesce(ops) ==
    LET sids == SessionsInOrder(ops)
    IN  [i \in 1..Len(sids) |->
            [sessionId |-> sids[i],
             create |-> FirstOrNull(OpsOfType(ops, sids[i], "create")),
             update |-> LastOrNull(OpsOfType(ops, sids[i], "update")),
             finish |-> LastOrNull(OpsOfType(ops, sids[i], "finish"))]]

\* ------------------------------------------------------------------- state
VARIABLES
    outbox,             \* localStorage sessionOutbox_v1: list of operations
    processed,          \* localStorage outboxProcessed_v1: set of opIds
    index,              \* localStorage sessionIndex_v1: id -> entry
    stampsLS,           \* localStorage stamps_<sid>: sid -> stamps, times as ISO
    hint,               \* sessionStorage activeSessionId
    remote,             \* remote collection "sessions": id -> document
    online,             \* React state online
    sessionId,          \* React state sessionId
    startedAt,          \* React state startedAt: a session is open in the runner
    stamps,             \* React state stamps
    captured,           \* React state captured
    active,             \* React state active: the capture point counted down
    remain,             \* React state remain: seconds left, -1 for null
    unfinishedFirebase, \* React state unfinishedFirebase: id -> fetched document
    fetching,           \* the getDocs of unfinished sessions has not answered yet
    inflight,           \* the controller's remote calls awaiting their answer
    runs,               \* synchronizer runs: slot -> locals of a suspended flush
    now,                \* wall clock, in ticks of DebounceMs
    reloadDue,          \* a window.location.reload() timer is pending
    okCount,            \* history: opId -> remote calls of flush that succeeded for it
    lastRun,            \* history: the synchronizer run that ended in the last step
    shown,              \* history: the session and stamps on screen at the last reload
    resumed,            \* history: the open session was resumed and not yet changed
    plans,              \* React state plans: the ids of the plans loaded
    planCache,          \* localStorage plansCache_v1: the ids of the plans cached
    sessionPlan,        \* React state sessionPlan: the plan snapshot of the runner
    rawStore,           \* localStorage as stored: key -> entry, for the loaders
    readOut             \* history: the outcome of the last read of rawStore

localVars == <<outbox, processed, index, stampsLS, hint>>
uiVars == <<online, sessionId, startedAt, stamps, captured, active, remain,
            unfinishedFirebase, fetching>>
histVars == <<okCount, shown, resumed>>
planVars == <<plans, planCache, sessionPlan>>
storeVars == <<rawStore, readOut>>
vars == <<localVars, remote, uiVars, inflight, runs, now, reloadDue, histVars, lastRun,
          planVars, storeVars>>

DebounceMs == 2000
NoZupt == <<>>
Wait(z) == 1
NoTime == Instant("null", 0)
NoRun == [ended |-> FALSE]
IdleRun == [pc |-> "idle"]
NoShown == [sid |-> NoId]
EmptyMap == [x \in {} |-> x]

\* ------------------------------------------------------------------- plans
\* A plan is known by its id; its capture points are the Zupts. A snapshot is
\* {id, zupts}, the name left out.
PlanIds == {"P1"}
PlanZupts(p) == Zupts
NoPlan == [id |-> "none", zupts |-> {}]
PlanSnapshot(p) == [id |-> p, zupts |-> PlanZupts(p)]
\* plans.find(p => p.id === planId), planId the plan selected or resumed
livePlan == IF plans # {} THEN PlanSnapshot(CHOOSE p \in plans : TRUE) ELSE NoPlan
activePlan == IF livePlan # NoPlan THEN livePlan ELSE sessionPlan
\* the snapshot start takes of the active plan
snapshot == [id |-> activePlan.id, zupts |-> activePlan.zupts]

\* ------------------------------------------------- localStorage as stored
\* An entry is missing, or text JSON.parse rejects, or JSON of some shape,
\* with or without items. A loaded value is a shape, with or without items.
OUTBOX_KEY == "sessionOutbox_v1"
INDEX_KEY == "sessionIndex_v1"
STAMPS_KEY == "stamps_"
OP_TRACK_KEY == "outboxProcessed_v1"
PLANS_CACHE_KEY == "plansCache_v1"
StoreKeys == {OUTBOX_KEY, INDEX_KEY, STAMPS_KEY, OP_TRACK_KEY, PLANS_CACHE_KEY}
Missing == [kind |-> "missing", shape |-> "none", items |-> "none"]
Unparseable == [kind |-> "text", shape |-> "none", items |-> "none"]
Json(shape, items) == [kind |-> "json", shape |-> shape, items |-> items]
RawEntries ==
    {Missing, Unparseable, Json("null", "none"), Json("number", "none")}
        \cup {Json(sh, it) : sh \in {"list", "map"}, it \in {"none", "some"}}
Value(shape, items) == [shape |-> shape, items |-> items]
EmptyList == Value("list", "none")
EmptyObject == Value("map", "none")
EmptySet == Value("set", "none")
\* JSON.parse(getItem(key) || "[]"), [] when it throws
loadOutboxRaw(raw) == IF raw.kind = "json" THEN Value(raw.shape, raw.items) ELSE EmptyList
\* JSON.parse(getItem(key) || "{}"), {} when it throws
loadIndexRaw(raw) == IF raw.kind = "json" THEN Value(raw.shape, raw.items) ELSE EmptyObject
\* [] when !raw; arr.map(...), [] when JSON.parse or arr.map throws
loadStampsRaw(raw) ==
    IF raw.kind = "json" /\ raw.shape = "list" THEN Value(raw.shape, raw.items) ELSE EmptyList
\* new Set(JSON.parse(getItem(key) || "[]")), an empty Set when it throws;
\* new Set(null) is empty, new Set of a number or of an object throws
loadProcessedRaw(raw) ==
    IF raw.kind = "json" /\ raw.shape = "list" THEN Value("set", raw.items) ELSE EmptySet
\* the initial plans state: raw ? JSON.parse(raw) : [], [] when it throws
loadPlansRaw(raw) == IF raw.kind = "json" THEN Value(raw.shape, raw.items) ELSE EmptyList
LoadRaw(k, raw) ==
    CASE k = OUTBOX_KEY -> loadOutboxRaw(raw)
      [] k = INDEX_KEY -> loadIndexRaw(raw)
      [] k = STAMPS_KEY -> loadStampsRaw(raw)
      [] k = OP_TRACK_KEY -> loadProcessedRaw(raw)
      [] OTHER -> loadPlansRaw(raw)
NoRead == [op |-> "none"]
ReadOutcome(op, k, threw, value) ==
    [op |-> op, key |-> k, raw |-> rawStore[k], threw |-> threw, value |-> value]
modelVars == <<localVars, remote, uiVars, inflight, runs, now, reloadDue, histVars,
               lastRun, planVars>>
\* a loader is called
ReadEntry(k) ==
    /\ readOut' = ReadOutcome("load", k, FALSE, LoadRaw(k, rawStore[k]))
    /\ UNCHANGED <<rawStore, modelVars>>
\* pushReplace, pushCreateOnce or localQueueTouch: each calls a list method
\* (filter, some, push) on loadOutbox() and saves the list; the call throws a
\* TypeError on anything but a list
OutboxWrite(op) ==
    LET ops == loadOutboxRaw(rawStore[OUTBOX_KEY])
    IN  /\ readOut' = ReadOutcome(op, OUTBOX_KEY, ops.shape # "list", ops)
        /\ rawStore' = IF ops.shape # "list" THEN rawStore
                       ELSE [rawStore EXCEPT ![OUTBOX_KEY] = Json("list", "some")]
        /\ UNCHANGED modelVars
OutboxWriters == {"pushReplace", "pushCreateOnce", "localQueueTouch"}
\* flush on an outbox that is not a list with items: ops.length throws on
\* null, is undefined on a map or a number and 0 on an empty list, and flush
\* returns
flushRaw ==
    LET ops == loadOutboxRaw(rawStore[OUTBOX_KEY])
    IN  /\ ops # Value("list", "some")
        /\ readOut' = ReadOutcome("flush", OUTBOX_KEY, ops.shape = "null", ops)
        /\ UNCHANGED <<rawStore, modelVars>>

Put(f, k, v) == [x \in DOMAIN f \cup {k} |-> IF x = k THEN v ELSE f[x]]
Del(f, k) == [x \in DOMAIN f \ {k} |-> f[x]]
Range(s) == {s[i] : i \in 1..Len(s)}
MinOf(S) == CHOOSE m \in S : \A x \in S : m <= x

Init ==
    /\ outbox = <<>>
    /\ processed = {}
    /\ index = EmptyMap
    /\ stampsLS = EmptyMap
    /\ hint = NoId
    /\ remote = EmptyMap
    /\ online \in BOOLEAN
    /\ sessionId = NoId
    /\ startedAt = FALSE
    /\ stamps = <<>>
    /\ captured = {}
    /\ active = NoZupt
    /\ remain = -1
    /\ unfinishedFirebase = EmptyMap
    /\ fetching = TRUE
    /\ inflight = <<>>
    /\ runs = [r \in 1..MaxRuns |-> IdleRun]
    /\ now = 0
    /\ reloadDue = FALSE
    /\ okCount = [o \in 1..MaxOps |-> 0]
    /\ lastRun = NoRun
    /\ shown = NoShown
    /\ resumed = FALSE
    /\ plans = PlanIds
    /\ planCache = PlanIds
    /\ sessionPlan = NoPlan
    /\ rawStore = [k \in StoreKeys |-> Missing]
    /\ readOut = NoRead

\* ------------------------------------------------------ local durable store
loadStamps(sid) ==
    IF sid \in DOMAIN stampsLS THEN StampsToDate(stampsLS[sid]) ELSE <<>>
saveStamps(ls, sid, list) == Put(ls, sid, StampsToISO(list))
\* variant: the list is not saved
persistNothing(ls, sid, list) == ls
persistStampsLocal(ls, sid, list) == IF sid = NoId THEN ls ELSE saveStamps(ls, sid, list)

\* genOpId: an id no stored or remembered operation carries
RunOpIds(run) ==
    IF run.pc = "idle" THEN {}
    ELSE {OpIdOf(o) : o \in Range(run.ops)} \cup run.processed
UsedOpIds ==
    {OpIdOf(o) : o \in Range(outbox)} \cup processed
        \cup UNION {RunOpIds(runs[r]) : r \in DOMAIN runs}
        \cup {o \in DOMAIN okCount : okCount[o] > 0}
genOpId == MinOf((1..(MaxOps + 1)) \ UsedOpIds)
CanEnqueue == genOpId <= MaxOps /\ Len(outbox) + 2 <= MaxOutbox

\* variant: the operation is pushed and the prior ones are kept
pushKeep(ops, sid, type, payload) == Append(ops, MkOp(genOpId, type, sid, payload))
pushReplace(ops, sid, type, payload) ==
    Append(SelectSeq(ops, LAMBDA o : ~(SessionIdOf(o) = sid /\ o.type = type)),
           MkOp(genOpId, type, sid, payload))
\* variant: the create is not queued
pushCreateNever(ops, sid, payload) == ops
pushCreateOnce(ops, sid, payload) ==
    IF \E i \in 1..Len(ops) : ops[i].type = "create" /\ SessionIdOf(ops[i]) = sid
    THEN ops
    ELSE Append(ops, MkOp(genOpId, "create", sid, payload))
localQueueTouch(ops) == Append(ops, TouchOp)

\* Deep-rehydrate plain milliseconds into Firestore Timestamps
rehydrateTimestampsInPayload(payload) ==
    [f \in DOMAIN payload |->
        IF f = "endedAt" /\ payload[f] # NoTime THEN toTimestamp(payload[f])
        ELSE IF f = "timestamps" THEN StampsToTimestamp(payload[f])
        ELSE payload[f]]
\* ------------------------------------------------------------- synchronizer
\* A suspended run holds flush's locals: ops, plan, processed, idMap,
\* remaining, the loop position (i, st: 1 create, 2 update, 3 finish) and
\* targetId; failed, nOk and seen (the processed set as loaded) are history.
OpAt(item, st) ==
    CASE st = 1 -> item.create
      [] st = 2 -> item.update
      [] OTHER -> item.finish
Needs(item, st, proc) == OpAt(item, st) # NoOp /\ OpAt(item, st).opId \notin proc
\* the next remote call at or after (i, st), or <<Len(plan) + 1, 1>>
RECURSIVE Seek(_, _, _, _)
Seek(plan, proc, i, st) ==
    IF i > Len(plan) THEN <<i, 1>>
    ELSE IF st > 3 THEN Seek(plan, proc, i + 1, 1)
    ELSE IF Needs(plan[i], st, proc) THEN <<i, st>>
    ELSE Seek(plan, proc, i, st + 1)
idMapGet(idMap, localId) == IF localId \in DOMAIN idMap THEN idMap[localId] ELSE localId
NewRun(ops, proc) ==
    [pc |-> "await", ops |-> ops, plan |-> groupAndCoalesce(ops), processed |-> proc,
     idMap |-> EmptyMap, remaining |-> <<>>, i |-> 0, st |-> 1, targetId |-> NoId,
     failed |-> {}, nOk |-> 0, seen |-> proc]
\* variant: the processed set is saved as it was loaded
FlushPersistUnremembered(run) ==
    [processed |-> run.seen,
     outbox |-> SelectSeq(run.remaining, LAMBDA o : o.type # "touch")]
\* variant: nothing the run did is saved
FlushPersistNothing(run) ==
    [processed |-> run.seen,
     outbox |-> SelectSeq(run.ops, LAMBDA o : o.type # "touch")]
\* variant: the outbox saved is the one loaded less the operations remembered
FlushPersistUnapplied(run) ==
    [processed |-> run.processed,
     outbox |-> SelectSeq(run.ops, LAMBDA o : OpIdOf(o) \notin run.processed)]
\* Persist processed opIds & remaining (drop 'touch')
FlushPersist(run) ==
    [processed |-> run.processed,
     outbox |-> SelectSeq(run.remaining, LAMBDA o : o.type # "touch")]
\* variant: the index is left as it is
PruneNothing(idx, filtered) == idx
\* prune finished-pending with no pending ops
Prune(idx, filtered) ==
    LET stillPendingIds == {SessionIdOf(o) : o \in Range(filtered)}
        dead == {idx[k].id : k \in {j \in DOMAIN idx :
                    idx[j].status # "active" /\ idx[j].id \notin stillPendingIds}}
    IN  [k \in DOMAIN idx \ dead |-> idx[k]]
\* flush from loop position (i, st) to its next await, or to its end
FlushSettle(base, r, run, i, st, idx) ==
    LET pos == Seek(run.plan, run.processed, i, st)
        pers == FlushPersist(run)
    IN  IF pos[1] > Len(run.plan)
        THEN /\ runs' = [base EXCEPT ![r] = IdleRun]
             /\ processed' = pers.processed
             /\ outbox' = pers.outbox
             /\ index' = Prune(idx, pers.outbox)
             /\ lastRun' = [ended |-> TRUE, ops |-> run.ops, failed |-> run.failed,
                            nOk |-> run.nOk, seen |-> run.seen, outbox |-> pers.outbox,
                            synced |-> Len(run.ops) # Len(pers.outbox)]
        ELSE /\ runs' = [base EXCEPT ![r] =
                    [run EXCEPT !.i = pos[1], !.st = pos[2],
                                !.targetId = IF pos[1] = run.i THEN run.targetId
                                             ELSE idMapGet(run.idMap, run.plan[pos[1]].sessionId)]]
             /\ processed' = processed
             /\ outbox' = outbox
             /\ index' = idx
             /\ lastRun' = NoRun
\* the flush effect: flush() from its call to its first await
FlushStart(base, r) ==
    IF outbox = <<>>
    THEN /\ runs' = base
         /\ lastRun' = NoRun
         /\ UNCHANGED <<processed, outbox, index>>
    ELSE FlushSettle(base, r, NewRun(outbox, processed), 1, 1, index)
FreeSlots == {r \in DOMAIN runs : runs[r].pc = "idle"}

\* variant: an update leaves the remote document as it was
MergeNothing(doc, payload) == doc
\* updateDoc: the fields of the payload replace those of the document
Merge(doc, payload) ==
    [f \in DOMAIN doc |-> IF f \in DOMAIN payload THEN payload[f] ELSE doc[f]]
NewDoc(payload, origin, localId) ==
    [timestamps |-> payload.timestamps, endedAt |-> payload.endedAt,
     startedOffline |-> payload.startedOffline, origin |-> origin, localId |-> localId,
     planSnapshot |-> payload.planSnapshot]
NextDocId == RemoteId(Cardinality(DOMAIN remote) + 1)
Bump(n) == IF n < MaxApplied THEN n + 1 ELSE n

\* variant: the entry is copied to the remote id and kept under the local id
MigrateIndexCopy(idx, localId, rid) ==
    IF localId \in DOMAIN idx
    THEN Put(idx, rid, [idx[localId] EXCEPT !.id = rid])
    ELSE idx
\* migrate index localId -> remoteId
MigrateIndex(idx, localId, rid) ==
    IF localId \in DOMAIN idx
    THEN Del(Put(idx, rid, [idx[localId] EXCEPT !.id = rid]), localId)
    ELSE idx
\* migrate stamps localId -> remoteId
MigrateStamps(ls, localId, rid) ==
    LET oldStamps == IF localId \in DOMAIN ls THEN StampsToDate(ls[localId]) ELSE <<>>
    IN  IF oldStamps # <<>> THEN saveStamps(ls, rid, oldStamps) ELSE ls

\* an awaited addDoc/updateDoc of flush resolves
FlushOk(r) ==
    /\ runs[r].pc = "await"
    /\ online
    /\ LET run == runs[r]
           item == run.plan[run.i]
           op == OpAt(item, run.st)
           localId == item.sessionId
           payload == rehydrateTimestampsInPayload(op.payload)
           run1 == [run EXCEPT !.processed = @ \cup {op.opId}, !.nOk = @ + 1]
       IN  /\ okCount' = [okCount EXCEPT ![op.opId] = Bump(@)]
           /\ IF run.st = 1
              THEN LET rid == NextDocId
                       run2 == [run1 EXCEPT !.targetId = rid, !.idMap = Put(@, localId, rid)]
                   IN  /\ Cardinality(DOMAIN remote) < MaxDocs
                       /\ remote' = Put(remote, rid, NewDoc(payload, op.opId, localId))
                       /\ stampsLS' = MigrateStamps(stampsLS, localId, rid)
                       /\ FlushSettle(runs, r, run2, run.i, 2,
                                      MigrateIndex(index, localId, rid))
              ELSE /\ run.targetId \in DOMAIN remote
                   /\ remote' = [remote EXCEPT ![run.targetId] = Merge(@, payload)]
                   /\ stampsLS' = stampsLS
                   /\ FlushSettle(runs, r, run1, run.i, run.st + 1, index)
    /\ UNCHANGED <<hint, uiVars, inflight, now, reloadDue, shown, resumed, planVars, storeVars>>

\* variant: the ops of a failed group are dropped like those of an applied one
KeepNone(ops, localId) == <<>>
\* variant: a failed group keeps the raw ops of every session
KeepAll(ops, localId) == SelectSeq(ops, LAMBDA o : o.type # "touch")
\* keep raw ops for this local session for retry
KeepRaw(ops, localId) ==
    SelectSeq(ops, LAMBDA o : o.type # "touch" /\ SessionIdOf(o) = localId)
\* variant: after a call that throws the run goes on with the same group
FlushFailContinue(r) ==
    /\ runs[r].pc = "await"
    /\ LET run == runs[r]
           localId == run.plan[run.i].sessionId
           run1 == [run EXCEPT
                       !.remaining = @ \o KeepRaw(run.ops, localId),
                       !.failed = @ \cup {localId}]
       IN  FlushSettle(runs, r, run1, run.i, run.st + 1, index)
    /\ UNCHANGED <<stampsLS, hint, remote, uiVars, inflight, now, reloadDue,
                   okCount, shown, resumed, planVars, storeVars>>
\* an awaited addDoc/updateDoc of flush throws
FlushFail(r) ==
    /\ runs[r].pc = "await"
    /\ LET run == runs[r]
           localId == run.plan[run.i].sessionId
           run1 == [run EXCEPT
                       !.remaining = @ \o KeepRaw(run.ops, localId),
                       !.failed = @ \cup {localId}]
       IN  FlushSettle(runs, r, run1, run.i + 1, 1, index)
    /\ UNCHANGED <<stampsLS, hint, remote, uiVars, inflight, now, reloadDue,
                   okCount, shown, resumed, planVars, storeVars>>
\* -------------------------------------------------- session lifecycle controller
\* variant: the handlers take the online branch whatever the connectivity
NeverOffline == FALSE
\* `if (!online)` in store, start and finish
Offline == ~online

LocalKeys == {k \in DOMAIN stampsLS : IsLocalId(k)}
FreshLocalId == LocalId(Cardinality(LocalKeys) + 1)
StartedSessions ==
    Cardinality(LocalKeys)
        + Cardinality({d \in DOMAIN remote : remote[d].origin = 0})
        + Cardinality({i \in 1..Len(inflight) : inflight[i].kind = "start"})
CreatePayload ==
    [timestamps |-> <<>>, endedAt |-> NoTime, startedOffline |-> TRUE,
     planSnapshot |-> PlanSnapshot(CHOOSE p \in PlanIds : TRUE)]
\* variant: the entry says the session was started online
IndexEntryOnline(id, offlineStart) ==
    [id |-> id, status |-> "active", startedOffline |-> FALSE,
     planId |-> (CHOOSE p \in PlanIds : TRUE)]
IndexEntry(id, offlineStart) ==
    [id |-> id, status |-> "active", startedOffline |-> offlineStart,
     planId |-> (CHOOSE p \in PlanIds : TRUE)]

\* start, from the index entry on (the part after the remote or queued create)
BeginSession(newId, offlineStart) ==
    /\ index' = Put(index, newId, IndexEntry(newId, offlineStart))
    /\ stampsLS' = saveStamps(stampsLS, newId, <<>>)
    /\ sessionId' = newId
    /\ startedAt' = TRUE
    /\ stamps' = <<>>
    /\ captured' = {}
    /\ hint' = newId
    /\ reloadDue' = (reloadDue \/ offlineStart)
    /\ resumed' = FALSE
    /\ shown' = NoShown
    /\ sessionPlan' = snapshot

StartFor(limit) ==
    /\ ~startedAt
    /\ activePlan # NoPlan
    /\ StartedSessions < limit
    /\ IF Offline
       THEN /\ CanEnqueue
            /\ outbox' = localQueueTouch(pushCreateOnce(outbox, FreshLocalId, CreatePayload))
            /\ BeginSession(FreshLocalId, TRUE)
            /\ UNCHANGED inflight
       ELSE /\ Len(inflight) < MaxInflight
            /\ inflight' = Append(inflight, [kind |-> "start", online |-> online])
            /\ UNCHANGED <<outbox, index, stampsLS, hint, sessionId, startedAt, stamps,
                           captured, reloadDue, resumed, shown, sessionPlan>>
    /\ lastRun' = NoRun
    /\ UNCHANGED <<processed, remote, online, active, remain, unfinishedFirebase,
                   fetching, runs, now, okCount, plans, planCache,
                   storeVars>>
Start == StartFor(MaxSessions)

\* LOCAL-FIRST: do not call Firestore when offline
store(list) ==
    IF sessionId = NoId
    THEN UNCHANGED <<stampsLS, outbox, inflight>>
    ELSE /\ stampsLS' = persistStampsLocal(stampsLS, sessionId, list)
         /\ IF Offline
            THEN /\ CanEnqueue
                 /\ outbox' = localQueueTouch(pushReplace(outbox, sessionId, "update",
                                  [timestamps |-> StampsToMillis(list)]))
                 /\ UNCHANGED inflight
            ELSE /\ Len(inflight) < MaxInflight
                 /\ inflight' = Append(inflight,
                        [kind |-> "update", sid |-> sessionId, list |-> list,
                         online |-> online])
                 /\ UNCHANGED outbox

\* variant: no attempt is taken for a double tap
NeverDebounced(name) == FALSE
\* the anti-double-tap test of addStamp
Debounced(name) ==
    LET hits == {i \in 1..Len(stamps) : stamps[i].zuptName = name}
    IN  hits # {} /\ now - stamps[MaxOf(hits)].time.t < DebounceMs

\* addStamp; capt is the captured set the calling handler has set before it;
\* the stamp list is followed up to length cap
addStampUpTo(name, capt, cap) ==
    IF Debounced(name)
    THEN /\ captured' = capt
         /\ UNCHANGED <<stamps, stampsLS, outbox, inflight, resumed, shown>>
    ELSE LET upd == Append(stamps, [zuptName |-> name, time |-> Instant("date", now)])
         IN  /\ Len(stamps) < cap
             /\ stamps' = upd
             /\ captured' = deriveLoopState(upd).captured
             /\ resumed' = FALSE
             /\ shown' = NoShown
             /\ store(upd)
addStamp(name, capt) == addStampUpTo(name, capt, MaxStamps)

\* variant: the lap is always numbered 1
deriveLoopStateFirst(list) == [deriveLoopState(list) EXCEPT !.loopIdx = 1]
\* the loopIdx and loopOn of the last render, set from the stamps (309-313)
loopMeta(list) == deriveLoopState(list)
toggleLoopUpTo(cap) ==
    /\ startedAt
    /\ LET d == loopMeta(stamps)
       IN  IF ~d.loopOn
           THEN /\ addStampUpTo(StartName(d.loopIdx), captured, cap)
                /\ UNCHANGED <<active, remain>>
           ELSE /\ addStampUpTo(StopName(d.loopIdx), captured, cap)
                /\ active' = NoZupt
                /\ remain' = -1
    /\ lastRun' = NoRun
    /\ UNCHANGED <<processed, index, hint, remote, online, sessionId, startedAt,
                   unfinishedFirebase, fetching, runs, now, reloadDue,
                   okCount, planVars, storeVars>>
toggleLoop == toggleLoopUpTo(MaxStamps)

clickZUpTo(z, cap) ==
    /\ startedAt
    /\ z \in activePlan.zupts
    /\ z \notin captured
    /\ remain = -1
    /\ deriveLoopState(stamps).loopOn
    /\ active' = IF Wait(z) = 0 THEN NoZupt ELSE z
    /\ remain' = IF Wait(z) = 0 THEN -1 ELSE Wait(z)
    /\ addStampUpTo(z, captured \cup {z}, cap)
    /\ lastRun' = NoRun
    /\ UNCHANGED <<processed, index, hint, remote, online, sessionId, startedAt,
                   unfinishedFirebase, fetching, runs, now, reloadDue,
                   okCount, planVars, storeVars>>
clickZ(z) == clickZUpTo(z, MaxStamps)

manual(note) ==
    /\ startedAt
    /\ remain = -1
    /\ addStamp(ManualName(note), captured)
    /\ lastRun' = NoRun
    /\ UNCHANGED <<processed, index, hint, remote, online, sessionId, startedAt,
                   active, remain, unfinishedFirebase, fetching, runs, now, reloadDue,
                   okCount, planVars, storeVars>>

undoLast ==
    /\ startedAt
    /\ active # NoZupt
    /\ stamps # <<>>
    /\ LET rest == SubSeq(stamps, 1, Len(stamps) - 1)
       IN  /\ stamps' = rest
           /\ captured' = deriveLoopState(rest).captured
           /\ store(rest)
    /\ active' = NoZupt
    /\ remain' = -1
    /\ resumed' = FALSE
    /\ shown' = NoShown
    /\ lastRun' = NoRun
    /\ UNCHANGED <<processed, index, hint, remote, online, sessionId, startedAt,
                   unfinishedFirebase, fetching, runs, now, reloadDue,
                   okCount, planVars, storeVars>>

\* the countdown effect: one second passes; at 0 the countdown is cleared
CountdownTick ==
    /\ lastRun' = NoRun
    /\ remain > 0
    /\ remain' = IF remain - 1 = 0 THEN -1 ELSE remain - 1
    /\ active' = IF remain - 1 = 0 THEN NoZupt ELSE active
    /\ UNCHANGED <<localVars, remote, online, sessionId, startedAt, stamps, captured,
                   unfinishedFirebase, fetching, inflight, runs, now, reloadDue,
                   histVars, planVars, storeVars>>

FinishPending(idx, sid) ==
    IF sid \in DOMAIN idx THEN [idx EXCEPT ![sid].status = "finished-pending"] ELSE idx

finish ==
    /\ lastRun' = NoRun
    /\ startedAt
    /\ sessionId # NoId
    /\ IF Offline
       THEN /\ CanEnqueue
            /\ outbox' = localQueueTouch(pushReplace(outbox, sessionId, "finish",
                             [endedAt |-> Instant("millis", now)]))
            /\ index' = FinishPending(index, sessionId)
            /\ hint' = NoId
            /\ reloadDue' = TRUE
            /\ UNCHANGED inflight
       ELSE /\ Len(inflight) < MaxInflight
            /\ inflight' = Append(inflight,
                   [kind |-> "finish", sid |-> sessionId, at |-> now, online |-> online])
            /\ UNCHANGED <<outbox, index, hint, reloadDue>>
    /\ UNCHANGED <<processed, stampsLS, remote, uiVars, runs, now, histVars, planVars, storeVars>>

\* the controller's awaited addDoc/updateDoc resolves
CtrlOk ==
    /\ inflight # <<>>
    /\ online
    /\ inflight' = Tail(inflight)
    /\ LET c == Head(inflight)
       IN  CASE c.kind = "start" ->
                  /\ Cardinality(DOMAIN remote) < MaxDocs
                  /\ remote' = Put(remote, NextDocId,
                         NewDoc([CreatePayload EXCEPT !.startedOffline = FALSE], 0, NoId))
                  /\ BeginSession(NextDocId, FALSE)
                  /\ UNCHANGED outbox
             [] c.kind = "update" ->
                  /\ c.sid \in DOMAIN remote
                  /\ remote' = [remote EXCEPT ![c.sid].timestamps =
                                    StampsToTimestamp(c.list)]
                  /\ UNCHANGED <<outbox, index, stampsLS, hint, sessionId, startedAt,
                                 stamps, captured, reloadDue, resumed, shown, sessionPlan>>
             [] c.kind = "finish" ->
                  /\ c.sid \in DOMAIN remote
                  /\ remote' = [remote EXCEPT ![c.sid].endedAt = Instant("ts", c.at)]
                  /\ index' = Del(index, c.sid)
                  /\ hint' = NoId
                  /\ reloadDue' = TRUE
                  /\ UNCHANGED <<outbox, stampsLS, sessionId, startedAt, stamps,
                                 captured, resumed, shown, sessionPlan>>
    /\ lastRun' = NoRun
    /\ UNCHANGED <<processed, online, active, remain, unfinishedFirebase, fetching,
                   runs, now, okCount, plans, planCache,
                   storeVars>>

\* the controller's awaited addDoc/updateDoc throws: fall back to the outbox
CtrlFail ==
    /\ inflight # <<>>
    /\ genOpId <= MaxOps
    /\ Len(outbox) < MaxOutbox
    /\ inflight' = Tail(inflight)
    /\ LET c == Head(inflight)
       IN  CASE c.kind = "start" ->
                  /\ outbox' = pushCreateOnce(outbox, FreshLocalId, CreatePayload)
                  /\ BeginSession(FreshLocalId, TRUE)
             [] c.kind = "update" ->
                  /\ outbox' = pushReplace(outbox, c.sid, "update",
                                   [timestamps |-> StampsToMillis(c.list)])
                  /\ UNCHANGED <<index, stampsLS, hint, sessionId, startedAt, stamps,
                                 captured, reloadDue, resumed, shown, sessionPlan>>
             [] c.kind = "finish" ->
                  /\ outbox' = pushReplace(outbox, c.sid, "finish",
                                   [endedAt |-> Instant("millis", c.at)])
                  /\ index' = FinishPending(index, c.sid)
                  /\ hint' = NoId
                  /\ reloadDue' = TRUE
                  /\ UNCHANGED <<stampsLS, sessionId, startedAt, stamps, captured,
                                 resumed, shown, sessionPlan>>
    /\ lastRun' = NoRun
    /\ UNCHANGED <<processed, remote, online, active, remain, unfinishedFirebase,
                   fetching, runs, now, okCount, plans, planCache,
                   storeVars>>
\* ------------------------------------------------------------------ resume
\* resume(s) of a local index entry (s.local)
\* the sessionPlan resume(s) sets for a local s, meta its index entry
ResumeLocalPlan(meta, s, cache) ==
    [id |-> meta.planId,
     zupts |-> IF meta.planId \in cache THEN PlanZupts(meta.planId)
               ELSE IF "planSnapshot" \in DOMAIN s THEN s.planSnapshot.zupts
               ELSE {}]
ResumeLocalState(sid) ==
    /\ sessionPlan' = IF sid \in DOMAIN index
                      THEN ResumeLocalPlan(index[sid], index[sid], plans)
                      ELSE sessionPlan
    /\ sessionId' = sid
    /\ stamps' = loadStamps(sid)
    /\ startedAt' = (startedAt \/ sid \in DOMAIN index)
    /\ captured' = deriveLoopState(loadStamps(sid)).captured
    /\ hint' = sid
    /\ resumed' = TRUE
\* resume(s) of a fetched remote document
ResumeRemoteState(sid) ==
    LET tsList == StampsToDate(unfinishedFirebase[sid].timestamps)
    IN  /\ sessionPlan' = unfinishedFirebase[sid].planSnapshot
        /\ sessionId' = sid
        /\ stamps' = tsList
        /\ startedAt' = TRUE
        /\ captured' = deriveLoopState(tsList).captured
        /\ hint' = sid
        /\ resumed' = TRUE
\* the ids offered under "Resume unfinished": fetched documents first, then
\* the active index entries no fetched document has the id of
localActives == {index[k].id : k \in {j \in DOMAIN index : index[j].status = "active"}}
resume(sid) ==
    /\ ~startedAt
    /\ \/ /\ sid \in DOMAIN unfinishedFirebase
          /\ ResumeRemoteState(sid)
       \/ /\ sid \in localActives \ DOMAIN unfinishedFirebase
          /\ ResumeLocalState(sid)
    /\ lastRun' = NoRun
    /\ UNCHANGED <<outbox, processed, index, stampsLS, remote, online, active, remain,
                   unfinishedFirebase, fetching, inflight, runs, now, reloadDue,
                   okCount, shown, plans, planCache,
                   storeVars>>
\* Auto-resume session from hint - OFFLINE ONLY
AutoResumable ==
    hint # NoId /\ hint \in DOMAIN index /\ index[hint].status = "active"

\* the getDocs of the plans and of the unfinished sessions answer; the plans
\* are cached unless localStorage.setItem throws
FetchUnfinished ==
    /\ lastRun' = NoRun
    /\ fetching
    /\ online
    /\ fetching' = FALSE
    /\ unfinishedFirebase' =
           [d \in {x \in DOMAIN remote : remote[x].endedAt = NoTime} |-> remote[d]]
    /\ plans' = PlanIds
    /\ planCache' \in {PlanIds, planCache}
    /\ UNCHANGED <<localVars, remote, online, sessionId, startedAt, stamps, captured,
                   active, remain, inflight, runs, now, reloadDue, histVars, sessionPlan,
                   storeVars>>

\* ------------------------------------------------------ connectivity monitor
GoOnline ==
    /\ ~online
    /\ online' = TRUE
    /\ FreeSlots # {}
    /\ FlushStart(runs, MinOf(FreeSlots))
    /\ UNCHANGED <<stampsLS, hint, remote, sessionId, startedAt, stamps, captured,
                   active, remain, unfinishedFirebase, fetching, inflight, now,
                   reloadDue, okCount, shown, resumed, planVars, storeVars>>

GoOffline ==
    /\ online
    /\ online' = FALSE
    /\ IF ~startedAt /\ AutoResumable
       THEN ResumeLocalState(hint)
       ELSE UNCHANGED <<sessionId, stamps, startedAt, captured, hint, resumed,
                        sessionPlan>>
    /\ lastRun' = NoRun
    /\ UNCHANGED <<outbox, processed, index, stampsLS, remote, active, remain,
                   unfinishedFirebase, fetching, inflight, runs, now, reloadDue,
                   okCount, shown, plans, planCache,
                   storeVars>>

\* ------------------------------------------------------------------ reload
\* window.location.reload(), by the user or by the timers of start and
\* finish: memory is lost, storage kept, the effects run again on mount.
Reload ==
    /\ shown' = IF startedAt
                THEN [sid |-> sessionId, stamps |-> stamps, clean |-> inflight = <<>>]
                ELSE shown
    /\ inflight' = <<>>
    /\ reloadDue' = FALSE
    /\ active' = NoZupt
    /\ remain' = -1
    /\ unfinishedFirebase' = EmptyMap
    /\ fetching' = TRUE
    /\ plans' = planCache
    /\ planCache' = planCache
    /\ IF online
       THEN /\ sessionId' = NoId
            /\ startedAt' = FALSE
            /\ stamps' = <<>>
            /\ captured' = {}
            /\ resumed' = FALSE
            /\ hint' = hint
            /\ sessionPlan' = NoPlan
            /\ FlushStart([r \in DOMAIN runs |-> IdleRun], 1)
       ELSE /\ runs' = [r \in DOMAIN runs |-> IdleRun]
            /\ IF AutoResumable
               THEN /\ sessionId' = hint
                    /\ stamps' = loadStamps(hint)
                    /\ startedAt' = TRUE
                    /\ captured' = deriveLoopState(loadStamps(hint)).captured
                    /\ hint' = hint
                    /\ resumed' = TRUE
                    /\ sessionPlan' = ResumeLocalPlan(index[hint], index[hint], planCache)
               ELSE /\ sessionId' = NoId
                    /\ startedAt' = FALSE
                    /\ stamps' = <<>>
                    /\ captured' = {}
                    /\ resumed' = FALSE
                    /\ hint' = hint
                    /\ sessionPlan' = NoPlan
            /\ lastRun' = NoRun
            /\ UNCHANGED <<outbox, processed, index>>
    /\ UNCHANGED <<stampsLS, remote, online, now, okCount, storeVars>>

\* the wall clock advances by one debounce window
Tick ==
    /\ lastRun' = NoRun
    /\ now < MaxTime * DebounceMs
    /\ now' = now + DebounceMs
    /\ UNCHANGED <<localVars, remote, uiVars, inflight, runs, reloadDue, histVars,
                   planVars, storeVars>>

\* ----------------------------------------------------------- specification
\* The whole runner: every handler, effect and answer, in any order.
Next ==
    \/ Start
    \/ toggleLoop
    \/ \E z \in Zupts : clickZ(z)
    \/ \E note \in Notes : manual(note)
    \/ undoLast
    \/ CountdownTick
    \/ finish
    \/ CtrlOk
    \/ CtrlFail
    \/ \E sid \in LocalIds \cup RemoteIds : resume(sid)
    \/ FetchUnfinished
    \/ GoOnline
    \/ GoOffline
    \/ Reload
    \/ Tick
    \/ \E r \in DOMAIN runs : FlushOk(r)
    \/ \E r \in DOMAIN runs : FlushFail(r)

Spec == Init /\ [][Next]_vars

\* no synchronizer run is suspended on a remote call
Quiet == FreeSlots = DOMAIN runs

\* The synchronizer under a session that is run offline: the user works only
\* while offline, online the outbox is flushed, one run at a time, and the
\* page may reload at any instant.
SyncNext ==
    \/ (Offline /\ ~reloadDue /\ StartFor(MaxSolo))
    \/ (Offline /\ ~reloadDue /\ Len(stamps) < MaxQueued /\ toggleLoop)
    \/ (Offline /\ ~reloadDue /\ finish)
    \/ (Quiet /\ GoOnline)
    \/ GoOffline
    \/ Reload
    \/ \E r \in DOMAIN runs : FlushOk(r)
    \/ \E r \in DOMAIN runs : FlushFail(r)

SyncSpec == Init /\ [][SyncNext]_vars

\* The same, with every run running to completion: no reload while a run is
\* suspended.
SeqNext ==
    \/ (Offline /\ ~reloadDue /\ StartFor(MaxSolo))
    \/ (Offline /\ ~reloadDue /\ Len(stamps) < MaxQueued /\ toggleLoop)
    \/ (Offline /\ ~reloadDue /\ finish)
    \/ (Quiet /\ GoOnline)
    \/ GoOffline
    \/ (Quiet /\ Reload)
    \/ \E r \in DOMAIN runs : FlushOk(r)
    \/ \E r \in DOMAIN runs : FlushFail(r)

SeqSpec == Init /\ [][SeqNext]_vars

\* The same with several sessions, so that a run has several groups.
GroupNext ==
    \/ (Offline /\ ~reloadDue /\ StartFor(MaxSessions))
    \/ (Offline /\ ~reloadDue /\ Len(stamps) < MaxQueued /\ toggleLoop)
    \/ (Offline /\ ~reloadDue /\ finish)
    \/ (Quiet /\ GoOnline)
    \/ GoOffline
    \/ (Quiet /\ Reload)
    \/ \E r \in DOMAIN runs : FlushOk(r)
    \/ \E r \in DOMAIN runs : FlushFail(r)

GroupSpec == Init /\ [][GroupNext]_vars

\* The synchronizer with overlapping runs: connectivity may be lost and come
\* back while a run is suspended on a remote call, and the flush effect then
\* starts a second run beside it; the page reloads between runs only.
OverlapNext ==
    \/ (Offline /\ ~reloadDue /\ StartFor(MaxSolo))
    \/ (Offline /\ ~reloadDue /\ Len(stamps) < MaxQueued /\ toggleLoop)
    \/ (Offline /\ ~reloadDue /\ finish)
    \/ GoOnline
    \/ GoOffline
    \/ (Quiet /\ Reload)
    \/ \E r \in DOMAIN runs : FlushOk(r)
    \/ \E r \in DOMAIN runs : FlushFail(r)

OverlapSpec == Init /\ [][OverlapNext]_vars

\* The synchronizer under the premises of its liveness: connectivity changes
\* between runs only, and it is lost and comes back again and again, so that
\* the flush effect starts run after run (WF of GoOnline and GoOffline); the
\* reload timers of start and finish fire (WF of Reload while one is due);
\* every awaited call is answered (WF of FlushFail: it throws unless it
\* resolves first) and a call that can resolve again and again does resolve
\* (SF of FlushOk).
LiveNext ==
    \/ (Offline /\ ~reloadDue /\ StartFor(MaxSolo))
    \/ (Offline /\ ~reloadDue /\ Len(stamps) < MaxQueued /\ toggleLoop)
    \/ (Offline /\ ~reloadDue /\ finish)
    \/ (Quiet /\ GoOnline)
    \/ (Quiet /\ GoOffline)
    \/ (Quiet /\ Reload)
    \/ \E r \in DOMAIN runs : FlushOk(r)
    \/ \E r \in DOMAIN runs : FlushFail(r)

LiveSpec ==
    /\ Init
    /\ [][LiveNext]_vars
    /\ WF_vars(Quiet /\ GoOnline)
    /\ WF_vars(Quiet /\ GoOffline)
    /\ WF_vars(Quiet /\ reloadDue /\ Reload)
    /\ WF_vars(\E r \in DOMAIN runs : FlushFail(r))
    /\ SF_vars(\E r \in DOMAIN runs : FlushOk(r))

\* no remote call of the synchronizer or of the controller is pending
Settled == Quiet /\ inflight = <<>>

\* The controller with one session, online and offline: the user acts and the
\* page reloads while no remote call is pending.
CtrlNext ==
    \/ (Settled /\ ~reloadDue /\ StartFor(MaxSolo))
    \/ (Settled /\ ~reloadDue /\ toggleLoop)
    \/ (Settled /\ ~reloadDue /\ \E z \in Zupts : clickZ(z))
    \/ (Settled /\ ~reloadDue /\ \E note \in Notes : manual(note))
    \/ (Settled /\ ~reloadDue /\ undoLast)
    \/ (Settled /\ ~reloadDue /\ finish)
    \/ CountdownTick
    \/ CtrlOk
    \/ CtrlFail
    \/ (Quiet /\ GoOnline)
    \/ (Quiet /\ GoOffline)
    \/ (Settled /\ Reload)
    \/ \E r \in DOMAIN runs : FlushOk(r)
    \/ \E r \in DOMAIN runs : FlushFail(r)

CtrlSpec == Init /\ [][CtrlNext]_vars

\* Reload and resume of one session that is run offline.
ResumeNext ==
    \/ (Offline /\ Quiet /\ ~reloadDue /\ StartFor(MaxSolo))
    \/ (Offline /\ Quiet /\ ~reloadDue /\ toggleLoop)
    \/ (Offline /\ Quiet /\ ~reloadDue /\ \E z \in Zupts : clickZ(z))
    \/ (Offline /\ Quiet /\ ~reloadDue /\ \E note \in Notes : manual(note))
    \/ (Offline /\ Quiet /\ ~reloadDue /\ undoLast)
    \/ CountdownTick
    \/ \E sid \in LocalIds \cup RemoteIds : resume(sid)
    \/ FetchUnfinished
    \/ (Quiet /\ GoOnline)
    \/ (Quiet /\ GoOffline)
    \/ (Quiet /\ Reload)
    \/ \E r \in DOMAIN runs : FlushOk(r)
    \/ \E r \in DOMAIN runs : FlushFail(r)

ResumeSpec == Init /\ [][ResumeNext]_vars

\* The scenario of a session started and stamped offline and synchronized
\* when connectivity returns: lap and capture made offline, runs one at a time.
ScenarioNext ==
    \/ (Offline /\ Quiet /\ ~reloadDue /\ StartFor(MaxSolo))
    \/ (Offline /\ Quiet /\ ~reloadDue /\ toggleLoop)
    \/ (Offline /\ Quiet /\ ~reloadDue /\ \E z \in Zupts : clickZ(z))
    \/ CountdownTick
    \/ (Quiet /\ GoOnline)
    \/ (Quiet /\ GoOffline)
    \/ (Quiet /\ Reload)
    \/ \E r \in DOMAIN runs : FlushOk(r)
    \/ \E r \in DOMAIN runs : FlushFail(r)

ScenarioSpec == Init /\ [][ScenarioNext]_vars

\* Start and finish of one session, online and offline, with the remote
\* writes of the controller resolving or throwing; Finish may be pressed again
\* before the reload that follows it.
LifeNext ==
    \/ (Settled /\ ~reloadDue /\ StartFor(MaxSolo))
    \/ (Settled /\ finish)
    \/ CtrlOk
    \/ CtrlFail
    \/ (Quiet /\ GoOnline)
    \/ (Quiet /\ GoOffline)
    \/ (Settled /\ Reload)
    \/ \E r \in DOMAIN runs : FlushOk(r)
    \/ \E r \in DOMAIN runs : FlushFail(r)

LifeSpec == Init /\ [][LifeNext]_vars

\* The stamp operations of one session under fixed connectivity, online or
\* offline, with the clock advancing: the user acts while no remote call is
\* pending.
CaptureNext ==
    \/ (Settled /\ ~reloadDue /\ StartFor(MaxSolo))
    \/ (Settled /\ ~reloadDue /\ toggleLoop)
    \/ (Settled /\ ~reloadDue /\ \E z \in Zupts : clickZ(z))
    \/ (Settled /\ ~reloadDue /\ \E note \in Notes : manual(note))
    \/ (Settled /\ ~reloadDue /\ undoLast)
    \/ CountdownTick
    \/ Tick
    \/ CtrlOk
    \/ CtrlFail
    \/ (Settled /\ Reload)
    \/ \E r \in DOMAIN runs : FlushOk(r)
    \/ \E r \in DOMAIN runs : FlushFail(r)

CaptureSpec == Init /\ [][CaptureNext]_vars

\* The same with the stamp list followed one stamp further, so that a point
\* captured in one lap is captured again in the next lap inside the debounce
\* window: lap start, capture, lap stop, lap start, capture.
DebounceNext ==
    \/ (Settled /\ ~reloadDue /\ StartFor(MaxSolo))
    \/ (Settled /\ ~reloadDue /\ toggleLoopUpTo(MaxStamps + 1))
    \/ (Settled /\ ~reloadDue /\ \E z \in Zupts : clickZUpTo(z, MaxStamps + 1))
    \/ (Settled /\ ~reloadDue /\ undoLast)
    \/ CountdownTick
    \/ Tick
    \/ CtrlOk
    \/ CtrlFail
    \/ (Settled /\ Reload)
    \/ \E r \in DOMAIN runs : FlushOk(r)
    \/ \E r \in DOMAIN runs : FlushFail(r)

DebounceSpec == Init /\ [][DebounceNext]_vars

\* One session, online or offline, up to the reload that follows finish: the
\* buttons of the runner stay in use until the page reloads.
TerminalNext ==
    \/ (Settled /\ ~reloadDue /\ StartFor(MaxSolo))
    \/ (Settled /\ toggleLoop)
    \/ (Settled /\ \E z \in Zupts : clickZ(z))
    \/ (Settled /\ \E note \in Notes : manual(note))
    \/ (Settled /\ undoLast)
    \/ (Settled /\ finish)
    \/ CountdownTick
    \/ CtrlOk
    \/ CtrlFail
    \/ (Settled /\ Reload)
    \/ \E r \in DOMAIN runs : FlushOk(r)
    \/ \E r \in DOMAIN runs : FlushFail(r)

TerminalSpec == Init /\ [][TerminalNext]_vars

\* groupAndCoalesce on every list of operations up to MaxList: the outbox
\* starts as any such list and the synchronizer runs on it.
PayloadOf(type) ==
    CASE type = "create" -> CreatePayload
      [] type = "update" -> [timestamps |-> <<>>]
      [] OTHER -> [endedAt |-> Instant("millis", 0)]
OpKinds == {<<t, sid>> : t \in {"create", "update", "finish"}, sid \in LocalIds}
                \cup {<<"touch", NoId>>}
OpList(f) ==
    [k \in DOMAIN f |->
        IF f[k][1] = "touch" THEN TouchOp
        ELSE MkOp(k, f[k][1], f[k][2], PayloadOf(f[k][1]))]
OpLists == {OpList(f) : f \in UNION {[1..n -> OpKinds] : n \in 0..MaxList}}
CoalesceInit ==
    /\ outbox \in OpLists
    /\ processed = {}
    /\ index = EmptyMap
    /\ stampsLS = EmptyMap
    /\ hint = NoId
    /\ remote = EmptyMap
    /\ online = FALSE
    /\ sessionId = NoId
    /\ startedAt = FALSE
    /\ stamps = <<>>
    /\ captured = {}
    /\ active = NoZupt
    /\ remain = -1
    /\ unfinishedFirebase = EmptyMap
    /\ fetching = TRUE
    /\ inflight = <<>>
    /\ runs = [r \in 1..MaxRuns |-> IdleRun]
    /\ now = 0
    /\ reloadDue = FALSE
    /\ okCount = [o \in 1..MaxOps |-> 0]
    /\ lastRun = NoRun
    /\ shown = NoShown
    /\ resumed = FALSE
    /\ plans = PlanIds
    /\ planCache = PlanIds
    /\ sessionPlan = NoPlan
    /\ rawStore = [k \in StoreKeys |-> Missing]
    /\ readOut = NoRead
CoalesceNext ==
    \/ (Quiet /\ GoOnline)
    \/ \E r \in DOMAIN runs : FlushOk(r)
    \/ \E r \in DOMAIN runs : FlushFail(r)

CoalesceSpec == CoalesceInit /\ [][CoalesceNext]_vars

\* deriveLoopState on every stamp list up to MaxStamps: a session started
\* online is in the index, its stamp cache holds any list of lap markers (of
\* laps up to MaxLap, with either white space), capture names and manual
\* notes, and the session is resumed offline and stamped further.
LapMarkers ==
    {<<"L", NumTok[n], ws, w>> : n \in 1..MaxLap, ws \in WhiteSpace, w \in {"Start", "Stop"}}
StampNamesIn == LapMarkers \cup Zupts \cup {ManualName(note) : note \in Notes}
StampListOf(f) == [k \in DOMAIN f |-> [zuptName |-> f[k], time |-> Instant("date", 0)]]
StampLists == {StampListOf(f) : f \in UNION {[1..n -> StampNamesIn] : n \in 0..MaxStamps}}
\* a session started online and stamped with list is in the index and in the
\* stamp cache; the page is offline and shows the start form
Resumable(list) ==
    /\ stampsLS = saveStamps(EmptyMap, RemoteId(1), list)
    /\ remote = Put(EmptyMap, RemoteId(1),
           [NewDoc([CreatePayload EXCEPT !.startedOffline = FALSE], 0, NoId)
               EXCEPT !.timestamps = StampsToTimestamp(list)])
    /\ index = Put(EmptyMap, RemoteId(1), IndexEntry(RemoteId(1), FALSE))
    /\ outbox = <<>>
    /\ processed = {}
    /\ hint = NoId
    /\ online = FALSE
    /\ sessionId = NoId
    /\ startedAt = FALSE
    /\ stamps = <<>>
    /\ captured = {}
    /\ active = NoZupt
    /\ remain = -1
    /\ unfinishedFirebase = EmptyMap
    /\ fetching = TRUE
    /\ inflight = <<>>
    /\ runs = [r \in 1..MaxRuns |-> IdleRun]
    /\ now = 0
    /\ reloadDue = FALSE
    /\ okCount = [o \in 1..MaxOps |-> 0]
    /\ lastRun = NoRun
    /\ shown = NoShown
    /\ resumed = FALSE
    /\ plans = PlanIds
    /\ planCache = PlanIds
    /\ sessionPlan = NoPlan
    /\ rawStore = [k \in StoreKeys |-> Missing]
    /\ readOut = NoRead
DeriveInit == \E list \in StampLists : Resumable(list)
DeriveNext ==
    \/ \E sid \in DOMAIN index : resume(sid)
    \/ toggleLoop
    \/ \E z \in Zupts : clickZ(z)
    \/ CountdownTick
    \/ Tick

DeriveSpec == DeriveInit /\ [][DeriveNext]_vars

\* The same on stamp lists whose lap markers are written in either letter
\* case ("L2 Start", "l2 start"), with one blank.
LowerCase(tok) ==
    CASE tok = "L" -> "l"
      [] tok = "Start" -> "start"
      [] tok = "Stop" -> "stop"
      [] OTHER -> tok
CaseMarkers ==
    {<<"L", NumTok[n], " ", w>> : n \in 1..MaxLap, w \in {"Start", "Stop"}}
        \cup {<<"l", NumTok[n], " ", w>> : n \in 1..MaxLap, w \in {"start", "stop"}}
CaseLists ==
    {StampListOf(f) : f \in UNION {[1..n -> CaseMarkers \cup Zupts] : n \in 0..MaxStamps}}
CaseInit == \E list \in CaseLists : Resumable(list)

CaseSpec == CaseInit /\ [][DeriveNext]_vars

\* The first run of the app: no plan is cached yet, the page is online and
\* the plans are fetched; then one session, started, reloaded and resumed,
\* online and offline.
PlanInit ==
    /\ outbox = <<>>
    /\ processed = {}
    /\ index = EmptyMap
    /\ stampsLS = EmptyMap
    /\ hint = NoId
    /\ remote = EmptyMap
    /\ online = TRUE
    /\ sessionId = NoId
    /\ startedAt = FALSE
    /\ stamps = <<>>
    /\ captured = {}
    /\ active = NoZupt
    /\ remain = -1
    /\ unfinishedFirebase = EmptyMap
    /\ fetching = TRUE
    /\ inflight = <<>>
    /\ runs = [r \in 1..MaxRuns |-> IdleRun]
    /\ now = 0
    /\ reloadDue = FALSE
    /\ okCount = [o \in 1..MaxOps |-> 0]
    /\ lastRun = NoRun
    /\ shown = NoShown
    /\ resumed = FALSE
    /\ plans = {}
    /\ planCache = {}
    /\ sessionPlan = NoPlan
    /\ rawStore = [k \in StoreKeys |-> Missing]
    /\ readOut = NoRead
PlanNext ==
    \/ FetchUnfinished
    \/ (Settled /\ ~reloadDue /\ StartFor(MaxSolo))
    \/ CtrlOk
    \/ CtrlFail
    \/ \E sid \in LocalIds \cup RemoteIds : resume(sid)
    \/ (Quiet /\ GoOnline)
    \/ (Quiet /\ GoOffline)
    \/ (Settled /\ Reload)
    \/ \E r \in DOMAIN runs : FlushOk(r)
    \/ \E r \in DOMAIN runs : FlushFail(r)

PlanSpec == PlanInit /\ [][PlanNext]_vars

\* The loaders and the outbox operations on every stored entry: one key of
\* localStorage holds any entry, the others none.
StoreInit ==
    /\ \E key \in StoreKeys : \E raw \in RawEntries :
          rawStore = [k \in StoreKeys |-> IF k = key THEN raw ELSE Missing]
    /\ readOut = NoRead
    /\ outbox = <<>>
    /\ processed = {}
    /\ index = EmptyMap
    /\ stampsLS = EmptyMap
    /\ hint = NoId
    /\ remote = EmptyMap
    /\ online = FALSE
    /\ sessionId = NoId
    /\ startedAt = FALSE
    /\ stamps = <<>>
    /\ captured = {}
    /\ active = NoZupt
    /\ remain = -1
    /\ unfinishedFirebase = EmptyMap
    /\ fetching = TRUE
    /\ inflight = <<>>
    /\ runs = [r \in 1..MaxRuns |-> IdleRun]
    /\ now = 0
    /\ reloadDue = FALSE
    /\ okCount = [o \in 1..MaxOps |-> 0]
    /\ lastRun = NoRun
    /\ shown = NoShown
    /\ resumed = FALSE
    /\ plans = PlanIds
    /\ planCache = PlanIds
    /\ sessionPlan = NoPlan
StoreNext ==
    \/ \E k \in StoreKeys : ReadEntry(k)
    \/ \E op \in OutboxWriters : OutboxWrite(op)
    \/ flushRaw

StoreSpec == StoreInit /\ [][StoreNext]_vars

\* ------------------------------------------------------- sessions page: merge
\* toDateSafe of the sessions page
toDateSafePage(v) == Instant("date", v.t)
\* sessions.filter(s => selected.has(s.id)): the selected ids in list order
RECURSIVE SelArr(_)
SelArr(sel) ==
    IF sel = {} THEN <<>>
    ELSE LET first == CHOOSE d \in sel : \A e \in sel : d[2] <= e[2]
         IN  <<first>> \o SelArr(sel \ {first})
\* selArr.flatMap(s => s.timestamps || [])
RECURSIVE FlatMapStamps(_)
FlatMapStamps(selArr) ==
    IF selArr = <<>> THEN <<>>
    ELSE remote[Head(selArr)].timestamps \o FlatMapStamps(Tail(selArr))
\* Array.prototype.sort with (a, b) => a.time.getTime() - b.time.getTime():
\* stable, ascending by time
InsertByTime(sorted, st) ==
    LET after == {i \in 1..Len(sorted) : sorted[i].time.t <= st.time.t}
        k == IF after = {} THEN 0 ELSE MaxOf(after)
    IN  SubSeq(sorted, 1, k) \o <<st>> \o SubSeq(sorted, k + 1, Len(sorted))
RECURSIVE SortByTime(_)
SortByTime(list) ==
    IF list = <<>> THEN <<>>
    ELSE InsertByTime(SortByTime(SubSeq(list, 1, Len(list) - 1)), list[Len(list)])
\* variant: the stamps are left in the order of the concatenation
mergedUnsorted(selArr) == FlatMapStamps(selArr)
mergedT(selArr) ==
    LET dated == [i \in 1..Len(FlatMapStamps(selArr)) |->
                     [FlatMapStamps(selArr)[i] EXCEPT !.time = toDateSafePage(@)]]
        sorted == SortByTime(dated)
    IN  [i \in 1..Len(sorted) |-> [sorted[i] EXCEPT !.time = Instant("ts", @.t)]]
\* mergeSelected, confirmed by the user: one document is added for the
\* selected ones, which are deleted
mergeSelected(sel) ==
    /\ sel \subseteq DOMAIN remote
    /\ Cardinality(sel) >= 2
    /\ \A d \in sel : remote[d].planId = remote[SelArr(sel)[1]].planId
    /\ remote' =
           Put([d \in DOMAIN remote \ sel |-> remote[d]],
               RemoteId(MaxOf({d[2] : d \in DOMAIN remote}) + 1),
               [planId |-> remote[SelArr(sel)[1]].planId,
                isMerged |-> TRUE,
                endedAt |-> IF \E d \in sel : remote[d].endedAt # NoTime
                            THEN Instant("ts", MaxOf({0} \cup
                                     {remote[d].endedAt.t : d \in {e \in sel :
                                          remote[e].endedAt # NoTime}}))
                            ELSE Instant("ts", now),
                timestamps |-> mergedT(SelArr(sel))])
    /\ lastRun' = NoRun
    /\ UNCHANGED <<localVars, uiVars, inflight, runs, now, reloadDue, histVars,
                   planVars, storeVars>>

\* mergeSelected on every collection of MaxDocs sessions of two plans, each
\* with up to MaxMergeStamps stamps at times up to MaxMergeTime.
MergeStampLists ==
    UNION {[1..n -> {[zuptName |-> z, time |-> Instant("ts", t)] :
                        z \in Zupts, t \in 0..MaxMergeTime}] : n \in 0..MaxMergeStamps}
MergeDocs ==
    {[planId |-> p, isMerged |-> FALSE, endedAt |-> NoTime, timestamps |-> list] :
        p \in {"P1", "P2"}, list \in MergeStampLists}
MergeInit ==
    /\ remote \in [RemoteIds -> MergeDocs]
    /\ outbox = <<>>
    /\ processed = {}
    /\ index = EmptyMap
    /\ stampsLS = EmptyMap
    /\ hint = NoId
    /\ online = TRUE
    /\ sessionId = NoId
    /\ startedAt = FALSE
    /\ stamps = <<>>
    /\ captured = {}
    /\ active = NoZupt
    /\ remain = -1
    /\ unfinishedFirebase = EmptyMap
    /\ fetching = TRUE
    /\ inflight = <<>>
    /\ runs = [r \in 1..MaxRuns |-> IdleRun]
    /\ now = 0
    /\ reloadDue = FALSE
    /\ okCount = [o \in 1..MaxOps |-> 0]
    /\ lastRun = NoRun
    /\ shown = NoShown
    /\ resumed = FALSE
    /\ plans = PlanIds
    /\ planCache = PlanIds
    /\ sessionPlan = NoPlan
    /\ rawStore = [k \in StoreKeys |-> Missing]
    /\ readOut = NoRead
MergeNext == \E sel \in SUBSET DOMAIN remote : mergeSelected(sel)

MergeSpec == MergeInit /\ [][MergeNext]_vars

\* -------------------------------------------------------------- properties
\* the remote call a suspended run awaits
Awaited(run) == OpAt(run.plan[run.i], run.st)
\* the remote documents a queued create made
DocsOf(opId) == {d \in DOMAIN remote : remote[d].origin = opId}
\* a run started on (ops, proc) returns without a remote call
IssuesNoCall(ops, proc) ==
    \/ ops = <<>>
    \/ Seek(groupAndCoalesce(ops), proc, 1, 1)[1] > Len(groupAndCoalesce(ops))

\* C1: when every synchronizer run runs to completion, whatever remote calls
\* fail, no queued create has made more than one remote document.
C1_CreatedAtMostOnce == \A o \in 1..MaxOps : Cardinality(DocsOf(o)) <= 1
\* a run has ended that met a create already applied by an earlier run
C1_Witness ==
    /\ lastRun.ended
    /\ \E o \in Range(lastRun.ops) :
          /\ o.type = "create"
          /\ o.opId \in lastRun.seen
          /\ Cardinality(DocsOf(o.opId)) = 1

\* C2 (as specified): no run awaits a remote call for an operation whose call
\* has already succeeded, also when a reload cut the run that made it.
C2_NeverIssuedAgain ==
    \A r \in DOMAIN runs :
        runs[r].pc = "await" => okCount[Awaited(runs[r]).opId] = 0

\* C3 (as specified): with connectivity coming back and remote calls succeeding
\* in the end, the outbox is empty again and again: nothing stays queued for
\* ever.
C3_OutboxDrains == []<>(outbox = <<>>)

\* C4 (as specified): once a session's create has succeeded, a run that awaits
\* the session's update or finish targets the document that create made.
C4_TargetsCreatedDoc ==
    \A r \in DOMAIN runs :
        LET run == runs[r]
        IN  (/\ run.pc = "await"
             /\ run.st > 1
             /\ run.plan[run.i].create # NoOp
             /\ DocsOf(run.plan[run.i].create.opId) # {})
                => run.targetId \in DocsOf(run.plan[run.i].create.opId)

\* the operations of a session in a list, touch entries left out
OpsOf(ops, sid) == SelectSeq(ops, LAMBDA o : o.type # "touch" /\ SessionIdOf(o) = sid)

\* C5: after a run, every session with a failed remote call has all the
\* operations it had in the outbox when the run started still there, unchanged
\* and in order; every operation of the other sessions is applied remotely,
\* remembered as processed and gone from the outbox.
C5_FailedGroupKept ==
    lastRun.ended =>
        /\ outbox = lastRun.outbox
        /\ \A sid \in lastRun.failed : OpsOf(outbox, sid) = OpsOf(lastRun.ops, sid)
        /\ \A o \in Range(lastRun.ops) :
              (o.type # "touch" /\ o.sessionId \notin lastRun.failed) =>
                  /\ o \notin Range(outbox)
                  /\ o.opId \in processed
                  /\ okCount[o.opId] >= 1
\* a run has ended in which one session's call failed and another session's
\* operation was applied
C5_Witness ==
    /\ lastRun.ended
    /\ lastRun.failed # {}
    /\ \E o \in Range(lastRun.ops) :
          /\ o.type # "touch"
          /\ o.sessionId \notin lastRun.failed
          /\ o.opId \notin lastRun.seen

\* C6: every remote write the controller has attempted was attempted while
\* the runner was online: offline, start, the four stamp operations and
\* finish write the local store and the outbox only.
C6_NoRemoteWriteOffline == \A i \in 1..Len(inflight) : inflight[i].online
\* offline, with nothing attempted, after start, a stamp operation and finish
\* have queued their operations (a touch entry is queued offline only)
C6_Witness ==
    /\ Offline
    /\ inflight = <<>>
    /\ \E i \in 1..Len(outbox) : outbox[i].type = "update"
    /\ \E i \in 1..Len(outbox) : outbox[i].type = "finish"
    /\ Cardinality({i \in 1..Len(outbox) : outbox[i].type = "touch"}) >= 2

\* a runner's session id and a stored id name the same session
SameSession(a, b) ==
    \/ a = b
    \/ a \in DOMAIN remote /\ remote[a].localId = b
    \/ b \in DOMAIN remote /\ remote[b].localId = a

\* C7 (as specified): right after the session shown at the last reload has
\* been resumed, the runner's stamp list is the list shown at that reload.
C7_ResumeRestores ==
    (resumed /\ shown.sid # NoId /\ SameSession(sessionId, shown.sid))
        => stamps = shown.stamps

\* C8 (as specified): the step that handles the answer of a remote write of
\* the controller writes neither the session index nor a stamp list: those
\* writes were made before the write was attempted.
C8_LocalWritesFirst ==
    [][(CtrlOk \/ CtrlFail) => (index' = index /\ stampsLS' = stampsLS)]_vars

\* the positions in a list of a session's operations of one type
Positions(ops, sid, type) ==
    {k \in 1..Len(ops) : ops[k].type = type /\ SessionIdOf(ops[k]) = sid}
\* the sessions the operations of a list name, touch entries left out
SessionsOf(ops) == {SessionIdOf(ops[k]) : k \in {j \in 1..Len(ops) : ops[j].type # "touch"}}

\* C9: the plan of a run has one entry for each session that a non-touch
\* operation of the loaded list names and no other entry; the entry holds the
\* session's create at the least position, its update at the greatest
\* position and its finish at the greatest position, null where there is none.
C9_OneEntryPerSession ==
    \A r \in DOMAIN runs :
        runs[r].pc = "await" =>
            LET ops == runs[r].ops
                plan == runs[r].plan
            IN  /\ {plan[i].sessionId : i \in 1..Len(plan)} = SessionsOf(ops)
                /\ Len(plan) = Cardinality(SessionsOf(ops))
                /\ \A i \in 1..Len(plan) :
                      LET c == Positions(ops, plan[i].sessionId, "create")
                          u == Positions(ops, plan[i].sessionId, "update")
                          f == Positions(ops, plan[i].sessionId, "finish")
                      IN  /\ plan[i].create = IF c = {} THEN NoOp ELSE ops[MinOf(c)]
                          /\ plan[i].update = IF u = {} THEN NoOp ELSE ops[MaxOf(u)]
                          /\ plan[i].finish = IF f = {} THEN NoOp ELSE ops[MaxOf(f)]
\* the example: [create(op1), update(op2), update(op3)] of one session gives
\* the one entry {create: op1, update: op3, finish: null}
C9_Witness ==
    \E r \in DOMAIN runs :
        /\ runs[r].pc = "await"
        /\ Len(runs[r].ops) = 3
        /\ runs[r].ops[1].type = "create"
        /\ runs[r].ops[2].type = "update"
        /\ runs[r].ops[3].type = "update"
        /\ SessionsOf(runs[r].ops) = {LocalId(1)}
        /\ runs[r].plan = <<[sessionId |-> LocalId(1), create |-> runs[r].ops[1],
                             update |-> runs[r].ops[3], finish |-> NoOp]>>

\* C10: after a run that ended with none of its remote calls failing, a run
\* started at once on the stored outbox and processed set issues no call.
C10_SecondRunIdle ==
    (lastRun.ended /\ lastRun.failed = {}) => IssuesNoCall(outbox, processed)
\* a run has ended in which calls were made and none failed
C10_Witness == lastRun.ended /\ lastRun.failed = {} /\ lastRun.nOk >= 2

\* the plan of the run that ended in the last step
LastPlan == IF lastRun.ended THEN groupAndCoalesce(lastRun.ops) ELSE <<>>
\* the remote sessions made for a local placeholder id
DocsFor(localId) == {d \in DOMAIN remote : remote[d].localId = localId}
\* a stamp list is the two stamps of the scenario: lap 1 started, Z1 captured
BothStamps(list) ==
    /\ Len(list) = 2
    /\ list[1].zuptName = StartName(1)
    /\ list[2].zuptName = <<"Z1">>

\* C11: after a run without a failed call that created a session started
\* offline and applied the update queued for it offline, exactly one remote
\* session exists for the session, its timestamps are the stamps cached
\* locally under the remote id and the stamps of the queued update, the index
\* holds the session under the remote id and not under the placeholder, and
\* the outbox is empty.
C11_OfflineSessionSynced ==
    \A i \in 1..Len(LastPlan) :
        LET item == LastPlan[i]
        IN  (/\ lastRun.failed = {}
             /\ item.create # NoOp
             /\ item.create.opId \notin lastRun.seen
             /\ item.update # NoOp)
                => /\ Cardinality(DocsFor(item.sessionId)) = 1
                   /\ \A d \in DocsFor(item.sessionId) :
                         /\ remote[d].timestamps = StampsToTimestamp(loadStamps(d))
                         /\ remote[d].timestamps =
                                StampsToTimestamp(item.update.payload.timestamps)
                         /\ d \in DOMAIN index
                         /\ index[d].id = d
                   /\ item.sessionId \notin DOMAIN index
                   /\ outbox = <<>>
\* the scenario: start, toggleLap and capture(Z1) offline, then one run in
\* which the create and the update succeed
C11_Witness ==
    /\ lastRun.ended
    /\ lastRun.failed = {}
    /\ lastRun.seen = {}
    /\ lastRun.nOk = 2
    /\ \E d \in DOMAIN remote : BothStamps(remote[d].timestamps)

\* the index entries of a session, under its placeholder or its remote id
EntriesOf(sid) == {k \in DOMAIN index : k = sid \/ k \in DocsFor(sid)}

CreateOk(r) == runs[r].pc = "await" /\ runs[r].st = 1 /\ FlushOk(r)
\* the placeholder id of the session whose call run r awaits
AwaitedLocalId(r) == runs[r].plan[runs[r].i].sessionId

\* C13: the step in which the remote create of a session succeeds, the
\* session having its index entry under the placeholder id, leaves no entry
\* under the placeholder id, and the entry under the remote id with the
\* remote id as its id field, unless the run ends in that step and prunes it.
C13_IndexMigrated ==
    [][\A r \in DOMAIN runs :
          (CreateOk(r) /\ AwaitedLocalId(r) \in DOMAIN index) =>
              /\ AwaitedLocalId(r) \notin DOMAIN index'
              /\ (runs'[r].pc = "await" \/ index[AwaitedLocalId(r)].status = "active") =>
                    /\ NextDocId \in DOMAIN index'
                    /\ index'[NextDocId].id = NextDocId
                    /\ index'[NextDocId].status = index[AwaitedLocalId(r)].status]_vars
\* a run has created the remote session and awaits the session's next call:
\* the index holds the entry under the remote id alone
C13_Witness ==
    \E r \in DOMAIN runs :
        /\ runs[r].pc = "await"
        /\ runs[r].st > 1
        /\ AwaitedLocalId(r) \in DOMAIN runs[r].idMap
        /\ runs[r].targetId \in DOMAIN index
        /\ index[runs[r].targetId].id = runs[r].targetId
        /\ AwaitedLocalId(r) \notin DOMAIN index

\* C14 (as specified): once the remote create of a session started under a
\* placeholder id has succeeded, the stamp cache holds the session's list
\* under the remote id and holds nothing under the placeholder id.
C14_StampsMigrated ==
    \A d \in DOMAIN remote :
        remote[d].localId # NoId =>
            /\ d \in DOMAIN stampsLS
            /\ remote[d].localId \notin DOMAIN stampsLS

\* the session an index key stands for: the placeholder id it was started
\* under, or the key itself for a session created remotely by start
SessionName(k) ==
    IF k \in DOMAIN remote /\ remote[k].localId # NoId THEN remote[k].localId ELSE k
\* the keys under which an index holds a session, given the remote store
EntriesIn(idx, rem, sid) ==
    {k \in DOMAIN idx : k = sid \/ (k \in DOMAIN rem /\ rem[k].localId = sid)}

\* C15 (as specified): a step that ends a run removes a session from the
\* index only if the session's entry was not active and the outbox the run
\* saves holds no operation of the session, whether the operation names the
\* session by its placeholder id or by its remote id.
C15_PruneOnlySynced ==
    [][lastRun'.ended =>
          \A k \in DOMAIN index :
              EntriesIn(index', remote', SessionName(k)) = {} =>
                  /\ index[k].status # "active"
                  /\ OpsOf(outbox', SessionName(k)) = <<>>
                  /\ OpsOf(outbox', k) = <<>>]_vars

\* C16: a start made offline attempts no remote call and writes nothing to the
\* remote store; it opens the session under a fresh placeholder id, stores an
\* active index entry with that id and an empty stamp list under it, and
\* leaves exactly one create for that id in the outbox.
C16_OfflineStart ==
    [][(Offline /\ Start) =>
          /\ inflight' = inflight
          /\ remote' = remote
          /\ runs' = runs
          /\ IsLocalId(sessionId')
          /\ sessionId' \notin DOMAIN index
          /\ sessionId' \in DOMAIN index'
          /\ index'[sessionId'].id = sessionId'
          /\ index'[sessionId'].status = "active"
          /\ sessionId' \in DOMAIN stampsLS'
          /\ stampsLS'[sessionId'] = <<>>
          /\ Cardinality(Positions(outbox', sessionId', "create")) = 1
          /\ Positions(outbox, sessionId', "create") = {}]_vars
\* offline, a session has just been started: its create and the touch entry
\* are queued and the reload that follows an offline start is due
C16_Witness ==
    /\ Offline
    /\ startedAt
    /\ reloadDue
    /\ IsLocalId(sessionId)
    /\ stamps = <<>>
    /\ inflight = <<>>
    /\ remote = EmptyMap
    /\ index[sessionId].status = "active"
    /\ stampsLS[sessionId] = <<>>
    /\ Cardinality(Positions(outbox, sessionId, "create")) = 1
    /\ outbox[Len(outbox)].type = "touch"

\* the step in which the direct remote write of a controller operation throws
DirectFails(kind) == inflight # <<>> /\ Head(inflight).kind = kind /\ CtrlFail
\* the step in which it resolves
DirectOk(kind) == inflight # <<>> /\ Head(inflight).kind = kind /\ CtrlOk

\* C17: when the addDoc of a start made online throws, the start goes on: the
\* session is opened under a fresh placeholder id with an active index entry,
\* exactly one create for that id is added to the outbox, and that create's
\* payload and the index entry both say startedOffline = true.
C17_FailedStartFallsBack ==
    [][DirectFails("start") =>
          /\ startedAt'
          /\ IsLocalId(sessionId')
          /\ sessionId' \notin DOMAIN index
          /\ sessionId' \in DOMAIN index'
          /\ index'[sessionId'].status = "active"
          /\ index'[sessionId'].startedOffline = TRUE
          /\ remote' = remote
          /\ Positions(outbox, sessionId', "create") = {}
          /\ Cardinality(Positions(outbox', sessionId', "create")) = 1
          /\ \A k \in Positions(outbox', sessionId', "create") :
                outbox'[k].payload.startedOffline = TRUE]_vars
\* online, a session is open under a placeholder id with its create queued
\* and no touch entry: the start was made online and its addDoc threw
C17_Witness ==
    /\ online
    /\ startedAt
    /\ IsLocalId(sessionId)
    /\ sessionId \in DOMAIN index
    /\ index[sessionId].startedOffline
    /\ Len(outbox) = 1
    /\ outbox[1].type = "create"
    /\ outbox[1].sessionId = sessionId
    /\ outbox[1].payload.startedOffline

\* the names of a stamp list
NamesOf(list) == [i \in 1..Len(list) |-> list[i].zuptName]
\* the laps a list has a Start marker of, and those it has a Stop marker of
LapsStarted(list) == {n \in 1..Len(NumTok) : \E ws \in WhiteSpace :
                         <<"L", NumTok[n], ws, "Start">> \in Range(NamesOf(list))}
LapsStopped(list) == {n \in 1..Len(NumTok) : \E ws \in WhiteSpace :
                         <<"L", NumTok[n], ws, "Stop">> \in Range(NamesOf(list))}
\* a lap is open: the greatest lap started has no Stop marker
LapOpen(list) ==
    LapsStarted(list) # {} /\ MaxOf(LapsStarted(list)) \notin LapsStopped(list)
\* the points captured in the open lap: the names after the last Start marker
\* of that lap that are neither lap markers nor manual notes
CapturedInLap(list) ==
    {NamesOf(list)[j] : j \in {i \in 1..Len(list) :
        /\ LapOpen(list)
        /\ \E k \in 1..(i - 1) : NamesOf(list)[k] = StartName(MaxOf(LapsStarted(list)))
        /\ \A k \in i..Len(list) : NamesOf(list)[k] # StartName(MaxOf(LapsStarted(list)))
        /\ ~rexStart(NamesOf(list)[i])
        /\ ~rexStop(NamesOf(list)[i])
        /\ ~IsManual(NamesOf(list)[i])}}
\* capture of z is to be rejected
CaptureRejected(z) ==
    \/ ~LapOpen(stamps)
    \/ z \in CapturedInLap(stamps)
    \/ active # NoZupt
    \/ remain # -1

\* C18: a capture made while no lap is open, or while the point is already
\* captured in the open lap, or while a countdown is active, changes neither
\* the stamp list, nor the stamp cache, nor the outbox, nor the remote store,
\* and attempts no remote call.
C18_RejectedCaptureNoEffect ==
    [][\A z \in Zupts :
          (startedAt /\ CaptureRejected(z) /\ clickZ(z)) =>
              UNCHANGED <<stamps, stampsLS, outbox, remote, inflight>>]_vars
\* a session is open with the point captured in the open lap and its
\* countdown running: no capture step is possible
C18_Witness ==
    /\ startedAt
    /\ LapOpen(stamps)
    /\ <<"Z1">> \in CapturedInLap(stamps)
    /\ active = <<"Z1">>
    /\ remain > 0
    /\ ~ENABLED (\E z \in Zupts : clickZ(z))

\* the name the lap button would stamp
ToggleName ==
    IF LapOpen(stamps) THEN StopName(MaxOf(LapsStarted(stamps)))
    ELSE IF LapsStarted(stamps) = {} THEN StartName(1)
    ELSE StartName(MaxOf(LapsStarted(stamps)) + 1)
\* the names an operation can stamp
StampNames ==
    {StartName(n) : n \in 1..(MaxStamps + 1)} \cup {StopName(n) : n \in 1..(MaxStamps + 1)}
        \cup Zupts \cup {ManualName(note) : note \in Notes}
\* the step of an operation that tries to add a stamp of the name
Attempted(name) ==
    \/ name = ToggleName /\ toggleLoop
    \/ name \in Zupts /\ clickZ(name)
    \/ \E note \in Notes : name = ManualName(note) /\ manual(note)
\* the most recent stamp of the name in the list is less than 2000 ms old
TooSoon(name) ==
    \E i \in 1..Len(stamps) :
        /\ stamps[i].zuptName = name
        /\ \A j \in (i + 1)..Len(stamps) : stamps[j].zuptName # name
        /\ now - stamps[i].time.t < DebounceMs
\* no two stamps of a list have the same name and less than 2000 ms between them
NoDoubleTap(list) ==
    \A i, j \in 1..Len(list) :
        (i < j /\ list[i].zuptName = list[j].zuptName)
            => list[j].time.t - list[i].time.t >= DebounceMs

\* C19: an attempt to add a stamp less than 2000 ms after the most recent
\* stamp of the same name changes neither the stamp list, nor the stamp cache,
\* nor the outbox, nor the remote store, and attempts no remote call; so the
\* stamp list never has two stamps of one name less than 2000 ms apart.
C19_DoubleTapDropped ==
    [][/\ NoDoubleTap(stamps')
       /\ \A name \in StampNames :
             (TooSoon(name) /\ Attempted(name)) =>
                 UNCHANGED <<stamps, stampsLS, outbox, remote, inflight>>]_vars
\* a stamp was just added and an attempt for the same name can be made at
\* once: the list has that one stamp of the name
C19_Witness ==
    \E note \in Notes :
        /\ TooSoon(ManualName(note))
        /\ ENABLED manual(note)
        /\ Cardinality({i \in 1..Len(stamps) : stamps[i].zuptName = ManualName(note)}) = 1
        /\ now = stamps[Len(stamps)].time.t

\* finish has queued its operation for session sid: the outbox holds exactly
\* one finish of the session, and every index entry the session had is kept
\* with status finished-pending
FinishQueued(sid) ==
    /\ Cardinality(Positions(outbox', sid, "finish")) = 1
    /\ \A k \in EntriesIn(index, remote, sid) :
          /\ k \in DOMAIN index'
          /\ index'[k].status = "finished-pending"

\* C20 (as specified): a finish made offline, and a finish made online whose
\* updateDoc throws, leave exactly one finish of the session in the outbox and
\* the session's index entry in place with status finished-pending; a finish
\* whose updateDoc resolves queues nothing and removes the session's entry.
C20_FinishFallsBack ==
    [][/\ (Offline /\ finish) => FinishQueued(sessionId)
       /\ DirectFails("finish") => FinishQueued(Head(inflight).sid)
       /\ DirectOk("finish") =>
             /\ outbox' = outbox
             /\ EntriesIn(index', remote', Head(inflight).sid) = {}]_vars

\* finish has been invoked on the session: its remote write is pending, or
\* its finish is queued, or the remote session is ended
FinishInvoked(sid) ==
    \/ \E i \in 1..Len(inflight) : inflight[i].kind = "finish" /\ inflight[i].sid = sid
    \/ Positions(outbox, sid, "finish") # {}
    \/ sid \in DOMAIN remote /\ remote[sid].endedAt # NoTime
\* a step of one of the four stamp operations
StampOperation ==
    \/ toggleLoop
    \/ \E z \in Zupts : clickZ(z)
    \/ \E note \in Notes : manual(note)
    \/ undoLast

\* C21 (as specified): once finish has been invoked on the open session, no
\* step of capture, toggleLap, manualNote or undo changes the stamp list or
\* the cached list, queues an update or attempts a remote update.
C21_FinishTerminal ==
    [][(startedAt /\ FinishInvoked(sessionId) /\ StampOperation) =>
          UNCHANGED <<stamps, stampsLS, outbox, inflight>>]_vars

\* a name is a capture: neither a lap marker nor a manual note
IsCapture(name) == ~rexStart(name) /\ ~rexStop(name) /\ ~IsManual(name)

\* C22: an undo step is taken on a non-empty stamp list only; it removes the
\* last stamp and keeps the others as they are and in order, saves the
\* shortened list in the stamp cache, clears the countdown, and leaves the
\* removed name, when it is a capture, out of the captured set, the one the
\* runner holds and the one derived from the shortened list.
C22_UndoRemovesLast ==
    [][undoLast =>
          /\ stamps # <<>>
          /\ stamps' = SubSeq(stamps, 1, Len(stamps) - 1)
          /\ sessionId \in DOMAIN stampsLS'
          /\ stampsLS'[sessionId] = StampsToISO(stamps')
          /\ active' = NoZupt
          /\ remain' = -1
          /\ IsCapture(stamps[Len(stamps)].zuptName) =>
                /\ stamps[Len(stamps)].zuptName \notin captured'
                /\ stamps[Len(stamps)].zuptName \notin CapturedInLap(stamps')
                /\ captured' = CapturedInLap(stamps')]_vars
\* online, right after the undo of a capture: the list is back to the lap's
\* Start marker and is saved, the countdown is cleared, nothing is captured,
\* and the update carrying the shortened list is on its way to a remote
\* session that still has both stamps
C22_Witness ==
    /\ startedAt
    /\ Len(stamps) = 1
    /\ stamps[1].zuptName = StartName(1)
    /\ stampsLS[sessionId] = StampsToISO(stamps)
    /\ active = NoZupt
    /\ remain = -1
    /\ captured = {}
    /\ sessionId \in DOMAIN remote
    /\ BothStamps(remote[sessionId].timestamps)
    /\ inflight # <<>>
    /\ Head(inflight).kind = "update"
    /\ Head(inflight).list = stamps

\* the last name of a stamp list
LastName(list) == list[Len(list)].zuptName
\* the list grew by one stamp
Appended == Len(stamps') = Len(stamps) + 1 /\ SubSeq(stamps', 1, Len(stamps)) = stamps

\* C23: a toggleLap step with no lap open appends "L<n> Start", n the lap
\* number derived from the stamp list, and the deriver then reports the lap
\* open with the same number; with a lap open it appends "L<n> Stop", the
\* deriver then reports the lap closed and the number n + 1, and the countdown
\* is cleared.
C23_ToggleLap ==
    [][toggleLoop =>
          /\ Appended
          /\ ~deriveLoopState(stamps).loopOn =>
                /\ LastName(stamps') = StartName(deriveLoopState(stamps).loopIdx)
                /\ LapsStarted(stamps) # {} =>
                      deriveLoopState(stamps).loopIdx = MaxOf(LapsStarted(stamps)) + 1
                /\ LapsStarted(stamps) = {} => deriveLoopState(stamps).loopIdx = 1
                /\ deriveLoopState(stamps').loopOn
                /\ deriveLoopState(stamps').loopIdx = deriveLoopState(stamps).loopIdx
          /\ deriveLoopState(stamps).loopOn =>
                /\ LastName(stamps') = StopName(deriveLoopState(stamps).loopIdx)
                /\ deriveLoopState(stamps).loopIdx = MaxOf(LapsStarted(stamps))
                /\ ~deriveLoopState(stamps').loopOn
                /\ deriveLoopState(stamps').loopIdx = deriveLoopState(stamps).loopIdx + 1
                /\ active' = NoZupt
                /\ remain' = -1]_vars
\* a lap was closed right after a capture in it: the stamp list is Start,
\* capture, Stop, the capture as old as the Stop marker, no countdown is left
\* and the next lap is lap 2
C23_Witness ==
    /\ startedAt
    /\ Len(stamps) = 3
    /\ stamps[1].zuptName = StartName(1)
    /\ stamps[2].zuptName \in Zupts
    /\ stamps[3].zuptName = StopName(1)
    /\ stamps[2].time = stamps[3].time
    /\ active = NoZupt
    /\ remain = -1
    /\ ~deriveLoopState(stamps).loopOn
    /\ deriveLoopState(stamps).loopIdx = 2

\* C24: for the stamp list of the open session, the deriver returns lap 1,
\* closed, nothing captured when the list has no Start marker; otherwise,
\* with the greatest lap number of any Start marker, the lap is open exactly
\* when no Stop marker of that number is in the list, and the lap number is
\* that number when open and one more when closed; a list of matched pairs
\* only is closed.
C24_LapDerived ==
    startedAt =>
        /\ LapsStarted(stamps) = {} =>
              deriveLoopState(stamps) = [loopIdx |-> 1, loopOn |-> FALSE, captured |-> {}]
        /\ LapsStarted(stamps) # {} =>
              /\ deriveLoopState(stamps).loopOn =
                     (MaxOf(LapsStarted(stamps)) \notin LapsStopped(stamps))
              /\ deriveLoopState(stamps).loopIdx =
                     IF MaxOf(LapsStarted(stamps)) \notin LapsStopped(stamps)
                     THEN MaxOf(LapsStarted(stamps))
                     ELSE MaxOf(LapsStarted(stamps)) + 1
        /\ (LapsStarted(stamps) # {} /\ LapsStarted(stamps) = LapsStopped(stamps)) =>
              /\ ~deriveLoopState(stamps).loopOn
              /\ deriveLoopState(stamps).loopIdx = MaxOf(LapsStarted(stamps)) + 1
\* the highest lap number wins whatever the order: lap 2 was started and
\* stopped before the Start marker of lap 1, which has no Stop marker, and the
\* deriver reports the lap closed and lap 3 next
C24_Witness ==
    /\ startedAt
    /\ NamesOf(stamps) = <<StartName(2), StopName(2), StartName(1)>>
    /\ ~deriveLoopState(stamps).loopOn
    /\ deriveLoopState(stamps).loopIdx = 3

\* the position of the last Start marker of the highest-numbered lap
LastStartOf(list) ==
    MaxOf({i \in 1..Len(list) : \E ws \in WhiteSpace :
              NamesOf(list)[i] = <<"L", NumTok[MaxOf(LapsStarted(list))], ws, "Start">>})
\* the names after that marker that are neither lap markers nor manual notes
CapturedAfterStart(list) ==
    {NamesOf(list)[j] : j \in {i \in (LastStartOf(list) + 1)..Len(list) :
                                  IsCapture(NamesOf(list)[i])}}
LocalResume ==
    \/ \E sid \in LocalIds \cup RemoteIds : resume(sid) /\ sid \notin DOMAIN unfinishedFirebase
    \/ (Reload /\ ~online /\ AutoResumable)
    \/ (GoOffline /\ ~startedAt /\ AutoResumable)
\* the plan snapshot start has embedded in the session
SessionSnapshot(sid) ==
    IF sid \in DOMAIN remote THEN remote[sid].planSnapshot
    ELSE IF OpsOfType(outbox, sid, "create") # <<>>
         THEN OpsOfType(outbox, sid, "create")[1].payload.planSnapshot
         ELSE NoPlan
\* C26 (as specified): when a session is resumed from its index entry and the
\* plans loaded do not hold the plan of the session, the capture points of the
\* runner are those of the plan snapshot taken when the session was started.
C26_SnapshotRestored ==
    [][(/\ LocalResume
        /\ sessionId' \in DOMAIN index'
        /\ index'[sessionId'].planId \notin plans')
          => activePlan'.zupts = SessionSnapshot(sessionId').zupts]_vars

\* the shape a key is stored in, and the value its loader returns for no entry
ExpectedShape(k) == IF k = INDEX_KEY THEN "map" ELSE "list"
DefaultOf(k) ==
    CASE k = INDEX_KEY -> EmptyObject
      [] k = OP_TRACK_KEY -> EmptySet
      [] OTHER -> EmptyList
\* the entry is missing, unparseable, or JSON of another shape than the key's
Corrupt(k, raw) == raw.kind # "json" \/ raw.shape # ExpectedShape(k)
\* C27 (as specified): a read of an entry that is missing, unparseable or of
\* another shape than expected returns the empty default of its key, and no
\* operation on such an entry throws.
C27_CorruptTolerated ==
    (readOut # NoRead /\ Corrupt(readOut.key, readOut.raw)) =>
        /\ ~readOut.threw
        /\ readOut.value = DefaultOf(readOut.key)

\* the stamps of the selected sessions, and how often a stamp is in a list
StampsOfSelection(sel) == UNION {Range(remote[d].timestamps) : d \in sel}
CountIn(list, st) == Cardinality({i \in 1..Len(list) : list[i] = st})
CountInSelection(sel, st) ==
    LET ids == SelArr(sel)
        total[i \in 0..Len(ids)] ==
            IF i = 0 THEN 0 ELSE total[i - 1] + CountIn(remote[ids[i]].timestamps, st)
    IN  total[Len(ids)]
\* the documents a step has added
AddedDocs == DOMAIN remote' \ DOMAIN remote
\* C28: merging a selection of two or more sessions of one plan adds one
\* session and deletes the selected ones; the stamps of the added session are
\* ascending by time and are the stamps of the selected sessions, each as
\* often as the selected sessions have it together.
C28_MergeSorted ==
    [][\A sel \in SUBSET DOMAIN remote : mergeSelected(sel) =>
          /\ Cardinality(AddedDocs) = 1
          /\ DOMAIN remote' = (DOMAIN remote \ sel) \cup AddedDocs
          /\ \A d \in AddedDocs :
                /\ \A i, j \in 1..Len(remote'[d].timestamps) :
                      i < j => remote'[d].timestamps[i].time.t <= remote'[d].timestamps[j].time.t
                /\ Range(remote'[d].timestamps) = StampsOfSelection(sel)
                /\ \A st \in StampsOfSelection(sel) :
                      CountIn(remote'[d].timestamps, st) = CountInSelection(sel, st)]_vars
\* two sessions with two stamps each were merged into one with the four
\* stamps at the times 0, 1, 2, 3, and a third session is left
C28_Witness ==
    \E d \in DOMAIN remote :
        /\ remote[d].isMerged
        /\ Cardinality(DOMAIN remote) = 2
        /\ Len(remote[d].timestamps) = 4
        /\ \A i \in 1..4 : remote[d].timestamps[i].time = Instant("ts", i - 1)

\* the call run r awaits comes after the calls of its group: its create is
\* applied before its update and finish, its update before its finish, and
\* no call of the group has failed in the run
CallInOrder(run) ==
    LET item == run.plan[run.i]
    IN  /\ (run.st >= 2 /\ item.create # NoOp) => item.create.opId \in run.processed
        /\ (run.st = 3 /\ item.update # NoOp) => item.update.opId \in run.processed
        /\ item.sessionId \notin run.failed
\* C29: in every run the calls of a group are issued in the order create,
\* update, finish, a call being issued only after the calls before it in the
\* group have succeeded or were applied by an earlier run; after a call of a
\* group has failed the run goes on with a later group, so the update and the
\* finish of a group whose create failed are not issued in that run.
C29_CallOrder ==
    /\ [](\A r \in DOMAIN runs : runs[r].pc = "await" => CallInOrder(runs[r]))
    /\ [][\A r \in DOMAIN runs :
             ((FlushOk(r) \/ FlushFail(r)) /\ runs'[r].pc = "await") =>
                 /\ FlushFail(r) => runs'[r].i > runs[r].i
                 /\ FlushOk(r) =>
                       \/ runs'[r].i > runs[r].i
                       \/ runs'[r].i = runs[r].i /\ runs'[r].st > runs[r].st]_vars
\* a run awaits a call of its second group after the create of its first
\* group failed: the update queued for the first group was not issued
C29_Witness ==
    \E r \in DOMAIN runs :
        /\ runs[r].pc = "await"
        /\ runs[r].i = 2
        /\ runs[r].plan[1].sessionId \in runs[r].failed
        /\ runs[r].plan[1].create # NoOp
        /\ runs[r].plan[1].create.opId \notin runs[r].processed
        /\ runs[r].plan[1].update # NoOp
        /\ okCount[runs[r].plan[1].update.opId] = 0

\* C30: in every reachable state the outbox holds at most one create
\* operation per session id, whatever start calls, failed remote calls and
\* synchronizer runs led to it
C30_OneCreatePerSession ==
    \A k \in 1..Len(outbox) :
        outbox[k].type = "create" =>
            Positions(outbox, SessionIdOf(outbox[k]), "create") = {k}
\* a run with a failed group has ended and saved what it kept: the outbox
\* holds the creates of two sessions and further operations of one of them
C30_Witness ==
    /\ lastRun.ended
    /\ lastRun.failed # {}
    /\ \E k, m \in 1..Len(outbox) :
          /\ outbox[k].type = "create"
          /\ outbox[m].type = "create"
          /\ SessionIdOf(outbox[k]) # SessionIdOf(outbox[m])
          /\ SessionIdOf(outbox[k]) \in lastRun.failed
    /\ \E k \in 1..Len(outbox) : outbox[k].type # "create"

\* C31: a synchronizer run surfaces the "synced" notification only if at
\* least one remote call of the run succeeded; a run in which every group
\* failed, or which only dropped touch entries, surfaces none
C31_SyncedOnlyIfApplied ==
    (lastRun.ended /\ lastRun.synced) => lastRun.nOk > 0

RemoteTypes == {"create", "update", "finish"}
HasTouch(ops) == \E k \in 1..Len(ops) : ops[k].type = "touch"
\* C32: a touch entry never causes a remote call (no group of a run's plan
\* holds one, the call a run awaits is a create, an update or a finish, and
\* a run makes no more successful calls than it loaded operations of these
\* types), and when a run that found a non-empty outbox ends, the outbox it
\* saved holds no touch entry, whether or not a group failed
C32_TouchNeverReplayed ==
    /\ \A r \in DOMAIN runs :
          runs[r].pc = "await" =>
              /\ Awaited(runs[r]).type \in RemoteTypes
              /\ \A i \in 1..Len(runs[r].plan) : \A st \in 1..3 :
                    OpAt(runs[r].plan[i], st).type # "touch"
    /\ lastRun.ended =>
          /\ ~HasTouch(outbox)
          /\ outbox = lastRun.outbox
          /\ lastRun.nOk <=
                Cardinality({k \in 1..Len(lastRun.ops) : lastRun.ops[k].type \in RemoteTypes})
\* a run that loaded touch entries among its operations ended with a failed
\* group, whose operations it kept
C32_Witness ==
    /\ lastRun.ended
    /\ HasTouch(lastRun.ops)
    /\ lastRun.failed # {}
    /\ outbox # <<>>

\* the list with every lap marker written in lower case
LowerMarkers(list) ==
    [k \in 1..Len(list) |->
        IF rexStart(list[k].zuptName) \/ rexStop(list[k].zuptName)
        THEN [list[k] EXCEPT !.zuptName = [i \in 1..Len(@) |-> LowerCase(@[i])]]
        ELSE list[k]]
\* C33: deriveLoopState recognizes lap markers whatever their letter case:
\* the stamp list of the open session and the same list with its markers in
\* lower case give the same loopIdx, loopOn and captured
C33_CaseInsensitive ==
    startedAt =>
        LET d == deriveLoopState(stamps)
            e == deriveLoopState(LowerMarkers(stamps))
        IN  /\ e.loopIdx = d.loopIdx
            /\ e.loopOn = d.loopOn
            /\ e.captured = d.captured

\* the sessions a run that ended left no operation of: created remotely by
\* start itself, cached locally, with no direct write pending
SyncedSessions ==
    {sid \in DOMAIN remote \cap DOMAIN stampsLS :
        /\ remote[sid].origin = 0
        /\ OpsOf(outbox, sid) = <<>>
        /\ inflight = <<>>}
\* C34: when a synchronizer run ends and leaves no operation of a session
\* in the outbox, the remote session's timestamps are the session's local
\* stamp list: an update queued by a failed direct write does not replace,
\* flushed later, the newer list a later direct write stored
C34_RemoteEqualsLocal ==
    lastRun.ended =>
        \A sid \in SyncedSessions :
            StampsToDate(remote[sid].timestamps) = loadStamps(sid)

\* the operations enqueued since run r loaded the outbox
EnqueuedSince(r) ==
    {o \in Range(outbox) : o.type # "touch" /\ o \notin Range(runs[r].ops)}
\* C35: an operation enqueued while a synchronizer run is suspended on a
\* remote call is not lost: when the run ends and saves the outbox, the
\* operation is in the saved outbox or its remote call has succeeded
C35_EnqueuedNotLost ==
    [][\A r \in DOMAIN runs :
          (runs[r].pc = "await" /\ (FlushOk(r) \/ FlushFail(r)) /\ lastRun'.ended) =>
              \A o \in EnqueuedSince(r) :
                  o \in Range(outbox') \/ okCount'[o.opId] > 0]_vars

\* C36: when connectivity is lost and comes back while a run awaits a remote
\* call, so that two runs overlap, a create or finish operation is still
\* applied by at most one remote call: a call of a create or a finish that
\* succeeds is the first that succeeds for that operation
C36_OverlapAppliesOnce ==
    [][\A r \in DOMAIN runs :
          (runs[r].pc = "await" /\ FlushOk(r)
              /\ Awaited(runs[r]).type \in {"create", "finish"}) =>
                  okCount[Awaited(runs[r]).opId] = 0]_vars

\* C37: no direct remote update of the controller (a stamp list written by
\* store, the endedAt written by finish) targets a local placeholder id:
\* once the synchronizer has created the session remotely, the writes go to
\* the remote id
C37_NoWriteToPlaceholder ==
    \A i \in 1..Len(inflight) :
        inflight[i].kind \in {"update", "finish"} => ~IsLocalId(inflight[i].sid)

\* after the step, the index holds no active entry of session sid, under its
\* placeholder id or under the remote id it was re-keyed to
NoActiveEntry(sid) ==
    \A k \in EntriesIn(index', remote', sid) : index'[k].status # "active"
\* C38: when finish completes for a session (offline, or online when its
\* updateDoc resolves or throws), the index holds no active entry of the
\* session: the entry is deleted or finished-pending, also when a
\* synchronizer run re-keyed it to a remote id while the session was open
C38_NoActiveAfterFinish ==
    [][/\ (Offline /\ finish) => NoActiveEntry(sessionId)
       /\ DirectFails("finish") => NoActiveEntry(Head(inflight).sid)
       /\ DirectOk("finish") => NoActiveEntry(Head(inflight).sid)]_vars

\* C39: the outbox holds at most one update and at most one finish per
\* session id (enqueueing one removes the earlier one of its type), and a
\* synchronizer run saves, for every session, no more operations than it
\* loaded
C39_OneUpdateOneFinish ==
    /\ [](\A k \in 1..Len(outbox) :
            outbox[k].type \in {"update", "finish"} =>
                Positions(outbox, SessionIdOf(outbox[k]), outbox[k].type) = {k})
    /\ [][\A r \in DOMAIN runs :
             (runs[r].pc = "await" /\ (FlushOk(r) \/ FlushFail(r)) /\ lastRun'.ended) =>
                 \A sid \in SessionsOf(runs[r].ops) \cup SessionsOf(outbox') :
                     Len(OpsOf(outbox', sid)) <= Len(OpsOf(runs[r].ops, sid))]_vars
\* an update was enqueued over an earlier update of the session, beside the
\* session's create, and a finish is queued too
C39_Witness ==
    \E sid \in SessionsOf(outbox) :
        /\ Positions(outbox, sid, "create") # {}
        /\ \E k \in Positions(outbox, sid, "update") :
              Len(outbox[k].payload.timestamps) >= 2
        /\ Positions(outbox, sid, "finish") # {}

\* C40: after every controller operation the view model agrees with the
\* stamp list: the captured set shown is the one derived from the stamps, and
\* a countdown is active only for a point that has a stamp in the list and is
\* in the captured set; a capture the debounce drops marks nothing and starts
\* no countdown
C40_ViewConsistent ==
    startedAt =>
        /\ captured = deriveLoopState(stamps).captured
        /\ active # NoZupt =>
              /\ \E i \in 1..Len(stamps) : stamps[i].zuptName = active
              /\ active \in deriveLoopState(stamps).captured

====
